---- MODULE Spec2Model ----
(***************************************************************************)
(* MAGI decision pipeline: three sage workers streamed through the stream  *)
(* multiplexer of MAGIStrandsAgent, the SOLOMON integrator, the pipeline   *)
(* driver process_decision_stream, and the vote aggregators of             *)
(* SolomonJudgeAgent and MAGIStrandsSystem.                                *)
(*                                                                         *)
(* Scheduling is the asyncio event loop: a task runs without interruption  *)
(* from one suspension point to the next.  A sage generator suspends only  *)
(* while it awaits the next item of its model stream; event_queue.put on   *)
(* the unbounded queue never suspends.  Hence one action per resumption.   *)
(*                                                                         *)
(* Time is counted in ticks of 30 seconds.  A tick passes only when no     *)
(* task is ready to run (the loop runs ready tasks before it sleeps).      *)
(***************************************************************************)
EXTENDS Integers, Sequences, FiniteSets, TLC

\* ------------------------------------------------------------------ bounds
MaxChunks == 1          \* text increments the sage streams (and the integrator's stream) deliver at most in one run
MaxBatch  == 3          \* longest batch handed to a vote aggregator
MaxVotes  == 2          \* largest count in a VotingResult handed to _determine_final_decision
MaxQuestionLen == 2     \* longest question handed to validate_question
MaxRequests == 2        \* requests made on one SolomonJudgeAgent
MaxNoise == 2           \* brace objects in a model text before the verdict object
MaxTokens == 5          \* tokens of a text given to _extract_json_block with its key

\* --------------------------------------------------------------- constants
sage_timeout_seconds    == 3    \* 90 s, in ticks of 30 s
solomon_timeout_seconds == 2    \* 60 s, in ticks of 30 s
GuardTimeout            == 2    \* wait_for(event_queue.get(), timeout=60.0), in ticks of 30 s

SageOrder == <<"caspar", "balthasar", "melchior">>
Sages     == {SageOrder[i] : i \in 1..3}
total_tasks == Len(SageOrder)

APPROVED  == "APPROVED"
REJECTED  == "REJECTED"
ABSTAINED == "ABSTAINED"
MAYBE     == "MAYBE"            \* a decision string the model invented
MISSING   == "<missing>"        \* the key is absent from the parsed object
NoDecision == [decision |-> "<None>", confidence |-> -1]   \* sage_states[..]["decision"] is None

\* Confidence values are hundredths (0.5 is 50).
ParsedConfidences == {90}

Min(a, b) == IF a < b THEN a ELSE b
Max(a, b) == IF a > b THEN a ELSE b

\* the clock saturates one tick past the longest timeout
MaxClock == Max(sage_timeout_seconds, solomon_timeout_seconds) + 1

\* ------------------------------------------------------------------ events
\* _create_sse_event: {"type": .., "data": .., "agentId": ..}; data is kept as
\* the chunk number n (or the length of the text), the decision and the confidence.
Ev(t, a, n, d, c) == [type |-> t, agent |-> a, n |-> n, decision |-> d, confidence |-> c]
EndMarker(a) == Ev("None", a, 0, "", -1)       \* (task_id, None)
IsMarkerOrComplete(e) == e.type \in {"None", "agent_complete"}
IsMarker(e)  == e.type = "None"

VARIABLES
  dpc,              \* position of process_decision_stream
  out,              \* the driver's and the integrator's events yielded by process_decision_stream, in order
  merged,           \* per sage, its events _merge_streams has yielded (and the driver passed on), in order
  emitted,          \* per sage, the events its generator has yielded, in order
  agent_responses,  \* the driver's list of collected completion data
  voting,           \* approved / rejected / abstained computed by the driver
  sage_data,        \* the batch serialized into the integrator prompt
  solomon_result,   \* data of the judge_complete event
  spc,              \* position of each sage worker
  chunks,           \* number of text increments in full_response, per sage
  sdecision,        \* sage_states[agent]["decision"]
  queue,            \* event_queue of _merge_streams
  completed_tasks,  \* end markers dequeued
  muxpc,            \* position of _merge_streams
  guardTimer,       \* ticks the current wait_for(event_queue.get()) has waited
  clock,            \* ticks since start_time of the running workers
  solpc,            \* position of _solomon_judgment_stream
  solchunks,        \* number of text increments in the integrator's full_response
  verdicts,         \* input of the run: the verdict strings the model streams may write
  confidences,      \* input of the run: the confidence numbers the model streams may write, in hundredths
  budget,           \* input of the run: text increments the sage streams deliver in total
  question,         \* input of the run: request['question'], a sequence of characters
  vBatch,           \* vote aggregator: the list of AgentResponse
  vTally,           \* vote aggregator: the VotingResult
  vFinal,           \* vote aggregator: the final decision returned
  vWho,             \* vote aggregator: which function returned vFinal
  vTotal,           \* VotingResult.total_votes of vTally
  vRate,            \* VotingResult.approval_rate of vTally, as a fraction
  rText,            \* MAGIStrandsSystem parser: the response text, by what it holds
  rDecision,        \* MAGIStrandsSystem parser: the decision of the AgentResponse built
  bAvail,           \* MAGIStrandsSystem: the sages whose entry in self.agents is not None
  bOutcome,         \* per sage, what awaiting its task gives: a decision, or an exception
  bBatch,           \* the list of AgentResponse returned by _consult_three_sages / _consult_sages
  dResponse,        \* the MAGIDecisionResponse returned by SolomonJudgeAgent.decide
  qOut,             \* what MAGIDecisionRequest.validate_question returns for question
  callWho,          \* which of the called functions has returned
  requests,         \* SolomonJudgeAgent: per request, its question and what the sage tools answer to it
  rpc,              \* per request, the position of its MAGIDecisionRequest(...) / decide call
  tresult,          \* per request and sage, the result of the tool's execute, once it has returned
  magi_responses,   \* per request, the MAGIDecisionResponse decide has returned
  execution_count,       \* SolomonJudgeAgent.execution_count
  total_execution_time,  \* SolomonJudgeAgent.total_execution_time
  tool_execution_count,  \* per sage tool, BaseSageTool.execution_count
  text,             \* extraction: the text a model stream delivers, as a sequence of pieces
  cuts,             \* extraction: the positions of text after which a chunk ends
  fed,              \* extraction: how many pieces of text the stream has delivered
  buffer,           \* extraction: sage_states[agent]["buffer"]
  full_response,    \* extraction: full_response of the worker
  parsed_decision,  \* extraction: what _parse_sage_decision returned for buffer
  json_block,       \* extraction: what _extract_json_block returned for full_response
  thinking,         \* extraction: the texts of the agent_thinking events yielded, in order
  agent_chunk,      \* extraction: the text of the agent_chunk event
  stream_chunk,     \* extraction: chunk, the item the model stream delivered last
  environ,          \* timeout configuration: os.environ at the four timeout keys
  config,           \* timeout configuration: the TimeoutConfig load_timeout_config returned
  warnings,         \* timeout configuration: the keys _validate_timeout_hierarchy warned about
  cfgpc,            \* timeout configuration: position of load_timeout_config
  tool_response,    \* per sage, the AgentResponse object its tool's execute works on
  epc               \* per sage, the position of BaseSageTool.execute (CasparAgent.analyze)

pipeVars == <<dpc, out, merged, emitted, agent_responses, voting, sage_data, solomon_result, spc, chunks,
              sdecision, queue, completed_tasks, muxpc, guardTimer, clock, solpc, solchunks,
              verdicts, confidences, budget, question>>
voteVars == <<vBatch, vTally, vFinal, vWho, vTotal, vRate>>
callVars == <<rText, rDecision, bAvail, bOutcome, bBatch, dResponse, qOut, callWho>>
reqVars == <<requests, rpc, tresult, magi_responses, execution_count, total_execution_time,
             tool_execution_count>>
textVars == <<text, cuts, fed, buffer, full_response, parsed_decision, json_block, thinking,
              agent_chunk, stream_chunk>>
cfgVars == <<environ, config, warnings, cfgpc>>
recVars == <<tool_response, epc>>
vars == <<pipeVars, voteVars, callVars, reqVars, textVars, cfgVars, recVars>>

\* ========================================================= vote aggregators
\* shared/types.py DecisionType: the only values an AgentResponse may carry.
DecisionType == {APPROVED, REJECTED}
\* An AgentResponse (or the dict of magi_executor): decision, confidence in
\* hundredths, and the length of its reasoning text.
VoteDecisions == {APPROVED, REJECTED, ABSTAINED}
VoteConfidences == {0, 100}
ReasoningLens == {0, 250}
Responses == [decision : VoteDecisions, confidence : VoteConfidences, reasoning_len : ReasoningLens]
Batches == UNION {[1..n -> Responses] : n \in 0..MaxBatch}
VotingResults == [approved : 0..MaxVotes, rejected : 0..MaxVotes, abstained : 0..MaxVotes]
IsAgentResponseBatch(b) == \A i \in 1..Len(b) : b[i].decision \in DecisionType

RECURSIVE CountDecision(_, _)
CountDecision(b, d) ==
  IF b = <<>> THEN 0
  ELSE (IF Head(b).decision = d THEN 1 ELSE 0) + CountDecision(Tail(b), d)

\* SolomonJudgeAgent._calculate_voting_result
CalculateVotingResult(responses) ==
  LET approved == CountDecision(responses, APPROVED)
      rejected == CountDecision(responses, REJECTED)
  IN [approved |-> approved, rejected |-> rejected,
      abstained |-> Len(responses) - approved - rejected]

\* SolomonJudgeAgent._score_responses: one AgentScore per response, in order.
ScoreResponses(responses) ==
  [i \in 1..Len(responses) |->
     LET base_score == responses[i].confidence
         content_quality == Min(20, responses[i].reasoning_len \div 10)
     IN [agent_id |-> i, score |-> Min(100, base_score + content_quality)]]

\* sum(s.score for s in scores if any(r.agent_id == s.agent_id and r.decision == d for r in refs))
RECURSIVE SumScoresWhere(_, _, _)
SumScoresWhere(scores, refs, d) ==
  IF scores = <<>> THEN 0
  ELSE (IF \E j \in 1..Len(refs) : refs[j].agent_id = Head(scores).agent_id /\ refs[j].decision = d
        THEN Head(scores).score ELSE 0)
       + SumScoresWhere(Tail(scores), refs, d)

\* SolomonJudgeAgent._determine_final_decision.  The tie branch iterates
\* "for r in []", so both sums run over the empty reference list.  The
\* averages are compared as fractions: x/m >= y/n  iff  x*n >= y*m.
DetermineFinalDecision(voting_result, scores) ==
  IF voting_result.approved > voting_result.rejected THEN APPROVED
  ELSE IF voting_result.rejected > voting_result.approved THEN REJECTED
  ELSE LET sum_approved == SumScoresWhere(scores, <<>>, APPROVED)
           sum_rejected == SumScoresWhere(scores, <<>>, REJECTED)
           n_approved == Max(1, voting_result.approved)
           n_rejected == Max(1, voting_result.rejected)
       IN IF sum_approved * n_rejected >= sum_rejected * n_approved
          THEN APPROVED ELSE REJECTED

\* MAGIStrandsSystem._create_fallback_judgment (magi_strands_agents.py) and
\* MAGIExecutor._create_fallback_judgment (magi_executor.py): same rule.
CreateFallbackJudgment(sage_responses) ==
  LET approved == CountDecision(sage_responses, APPROVED)
      rejected == CountDecision(sage_responses, REJECTED)
  IN [voting_result |-> [approved |-> approved, rejected |-> rejected, abstained |-> 0],
      final_decision |-> IF approved > rejected THEN APPROVED ELSE REJECTED]

\* ---- shared/types.py VotingResult: the two computed properties
Fraction(n, d) == [num |-> n, den |-> d]
ZeroRate == Fraction(0, 1)           \* 0.0
TotalVotes(v) == v.approved + v.rejected + v.abstained
ApprovalRateOfAll(v) ==
  LET valid_votes == v.approved + v.rejected + v.abstained
  IN IF valid_votes = 0 THEN ZeroRate ELSE Fraction(v.approved, valid_votes)
ApprovalRate(v) ==
  LET valid_votes == v.approved + v.rejected
  IN IF valid_votes = 0 THEN ZeroRate ELSE Fraction(v.approved, valid_votes)

VoteInit ==
  /\ vBatch \in Batches
  /\ vTally \in VotingResults
  /\ vFinal = "<none>"
  /\ vWho = "<none>"
  /\ vTotal = -1
  /\ vRate = ZeroRate

\* SolomonJudgeAgent._evaluate_responses: tally the batch, score it, decide.
EvaluateResponses ==
  /\ vWho = "<none>"
  /\ IsAgentResponseBatch(vBatch)
  /\ vTally' = CalculateVotingResult(vBatch)
  /\ vFinal' = DetermineFinalDecision(vTally', ScoreResponses(vBatch))
  /\ vWho' = "_evaluate_responses"
  /\ UNCHANGED <<vBatch, vTotal, vRate>>

\* SolomonJudgeAgent._determine_final_decision applied to a given VotingResult.
DetermineFinalDecisionCall ==
  /\ vWho = "<none>"
  /\ IsAgentResponseBatch(vBatch)
  /\ vFinal' = DetermineFinalDecision(vTally, ScoreResponses(vBatch))
  /\ vWho' = "_determine_final_decision"
  /\ UNCHANGED <<vBatch, vTally, vTotal, vRate>>

\* MAGIStrandsSystem._create_fallback_judgment on a list of AgentResponse.
StrandsFallbackJudgment ==
  /\ vWho = "<none>"
  /\ IsAgentResponseBatch(vBatch)
  /\ vTally' = CreateFallbackJudgment(vBatch).voting_result
  /\ vFinal' = CreateFallbackJudgment(vBatch).final_decision
  /\ vWho' = "strands._create_fallback_judgment"
  /\ UNCHANGED <<vBatch, vTotal, vRate>>

\* MAGIExecutor._create_fallback_judgment on a list of dicts (any decision string).
ExecutorFallbackJudgment ==
  /\ vWho = "<none>"
  /\ vTally' = CreateFallbackJudgment(vBatch).voting_result
  /\ vFinal' = CreateFallbackJudgment(vBatch).final_decision
  /\ vWho' = "executor._create_fallback_judgment"
  /\ UNCHANGED <<vBatch, vTotal, vRate>>

\* total_votes and approval_rate are read from a VotingResult.
VotingResultProperties ==
  /\ vWho = "<none>"
  /\ vTotal' = TotalVotes(vTally)
  /\ vRate' = ApprovalRate(vTally)
  /\ vWho' = "VotingResult"
  /\ UNCHANGED <<vBatch, vTally, vFinal>>

\* the caller drops the result and evaluates the same batch again
VoteAgain ==
  /\ vWho # "<none>"
  /\ vWho' = "<none>"
  /\ vFinal' = "<none>"
  /\ vTotal' = -1
  /\ vRate' = ZeroRate
  /\ UNCHANGED <<vBatch, vTally>>

VoteNext ==
  \/ EvaluateResponses
  \/ DetermineFinalDecisionCall
  \/ StrandsFallbackJudgment
  \/ ExecutorFallbackJudgment
  \/ VotingResultProperties
  \/ VoteAgain

\* ========================================================= called functions
\* A response text, by what the parsers look for in it: braces, whether the
\* text between the first and the last brace is valid JSON, the value of its
\* "decision" key, and whether the text holds 'approved', '可決' or '承認'.
TextDecisions == {MISSING, APPROVED, REJECTED, ABSTAINED, MAYBE}
Texts ==
  {t \in [braces : BOOLEAN, valid : BOOLEAN, decision : TextDecisions, keyword : BOOLEAN] :
     /\ t.valid => t.braces
     /\ t.decision # MISSING => t.valid
     /\ t.decision = APPROVED => t.keyword}
EmptyText == [braces |-> FALSE, valid |-> FALSE, decision |-> MISSING, keyword |-> FALSE]

\* MAGIStrandsSystem._fallback_parse_response
FallbackParseResponse(t) == IF t.keyword THEN APPROVED ELSE REJECTED

\* MAGIStrandsSystem._parse_sage_response: DecisionType(parsed.get('decision', 'REJECTED'));
\* JSONDecodeError and the ValueError of DecisionType(..) lead to the fallback.
ParseSageResponse(t) ==
  IF t.braces
  THEN IF ~t.valid THEN FallbackParseResponse(t)
       ELSE LET d == IF t.decision = MISSING THEN REJECTED ELSE t.decision
            IN IF d \in DecisionType THEN d ELSE FallbackParseResponse(t)
  ELSE FallbackParseResponse(t)

\* ---- MAGIStrandsSystem._consult_three_sages, SolomonJudgeAgent._consult_sages
EXCEPTION == "Exception"
Outcomes == DecisionType \cup {EXCEPTION}
\* an AgentResponse: who, the decision, confidence in hundredths, length of
\* the reasoning, and whether the code made it up for a failed sage
Response(a, d, c, n, syn) ==
  [agent_id |-> a, decision |-> d, confidence |-> c, reasoning_len |-> n, synthesized |-> syn]
RealResponse(a, d) == Response(a, d, 100, 250, FALSE)

RECURSIVE TasksOf(_, _)
\* the sages for which _consult_three_sages creates a task, in order
TasksOf(avail, i) ==
  IF i > Len(SageOrder) THEN <<>>
  ELSE (IF SageOrder[i] \in avail THEN <<SageOrder[i]>> ELSE <<>>) \o TasksOf(avail, i + 1)

\* MAGIStrandsSystem._consult_three_sages: a sage without agent gets no task;
\* the fallback of the i-th task is written for sage_types[i].
ConsultThreeSages(avail, outcome) ==
  LET tasks == TasksOf(avail, 1)
  IN [i \in 1..Len(tasks) |->
        IF outcome[tasks[i]] = EXCEPTION
        THEN Response(SageOrder[i], REJECTED, 0, 14, TRUE)
        ELSE RealResponse(tasks[i], outcome[tasks[i]])]

\* SolomonJudgeAgent._consult_sages: three tasks, an exception becomes a REJECTED response.
ConsultSages(outcome) ==
  [i \in 1..Len(SageOrder) |->
     IF outcome[SageOrder[i]] = EXCEPTION
     THEN Response(SageOrder[i], REJECTED, 0, 23, TRUE)
     ELSE RealResponse(SageOrder[i], outcome[SageOrder[i]])]

RECURSIVE SumConfidence(_)
SumConfidence(responses) ==
  IF responses = <<>> THEN 0 ELSE Head(responses).confidence + SumConfidence(Tail(responses))
\* SolomonJudgeAgent._calculate_confidence, in hundredths (rounded down)
CalculateConfidence(responses, voting_result) ==
  LET total_votes == voting_result.approved + voting_result.rejected + voting_result.abstained
  IN IF total_votes = 0 THEN 0
     ELSE LET max_votes == Max(voting_result.approved, voting_result.rejected)
              consensus_rate == (100 * max_votes) \div total_votes
              avg_individual_confidence == SumConfidence(responses) \div Len(responses)
          IN (consensus_rate + avg_individual_confidence) \div 2

\* SolomonJudgeAgent.decide: _consult_sages, _evaluate_responses, and the
\* MAGIDecisionResponse built without has_errors and degraded_mode, which
\* therefore keep their defaults.
Decide(outcome) ==
  LET sage_responses == ConsultSages(outcome)
      voting_result == CalculateVotingResult(sage_responses)
  IN [agent_responses |-> sage_responses,
      voting_result |-> voting_result,
      final_decision |-> DetermineFinalDecision(voting_result, ScoreResponses(sage_responses)),
      scores |-> ScoreResponses(sage_responses),
      confidence |-> CalculateConfidence(sage_responses, voting_result),
      has_errors |-> FALSE,
      degraded_mode |-> FALSE]
NoResponse ==
  [agent_responses |-> <<>>, voting_result |-> [approved |-> 0, rejected |-> 0, abstained |-> 0],
   final_decision |-> "<none>", scores |-> <<>>, confidence |-> 0,
   has_errors |-> FALSE, degraded_mode |-> FALSE]

\* ---- MAGIDecisionRequest.validate_question
Chars == {" ", "q"}
Questions == UNION {[1..n -> Chars] : n \in 0..MaxQuestionLen}
RECURSIVE LStrip(_)
LStrip(q) == IF q # <<>> /\ Head(q) = " " THEN LStrip(Tail(q)) ELSE q
RECURSIVE RStrip(_)
RStrip(q) == IF q # <<>> /\ q[Len(q)] = " " THEN RStrip(SubSeq(q, 1, Len(q) - 1)) ELSE q
Strip(q) == RStrip(LStrip(q))
ValueError == <<"ValueError">>
\* if not v or not v.strip(): raise ValueError; return v.strip()
ValidateQuestion(v) == IF v = <<>> \/ Strip(v) = <<>> THEN ValueError ELSE Strip(v)

CallIdle ==
  /\ rText = EmptyText
  /\ rDecision = "<none>"
  /\ bAvail = Sages
  /\ bOutcome = [s \in Sages |-> APPROVED]
  /\ bBatch = <<>>
  /\ dResponse = NoResponse
  /\ qOut = <<>>
  /\ callWho = "<none>"

ParseSageResponseCall ==
  /\ callWho = "<none>"
  /\ rDecision' = ParseSageResponse(rText)
  /\ callWho' = "_parse_sage_response"
  /\ UNCHANGED <<rText, bAvail, bOutcome, bBatch, dResponse, qOut>>

FallbackParseResponseCall ==
  /\ callWho = "<none>"
  /\ rDecision' = FallbackParseResponse(rText)
  /\ callWho' = "_fallback_parse_response"
  /\ UNCHANGED <<rText, bAvail, bOutcome, bBatch, dResponse, qOut>>

ConsultThreeSagesCall ==
  /\ callWho = "<none>"
  /\ bBatch' = ConsultThreeSages(bAvail, bOutcome)
  /\ callWho' = "_consult_three_sages"
  /\ UNCHANGED <<rText, rDecision, bAvail, bOutcome, dResponse, qOut>>

ConsultSagesCall ==
  /\ callWho = "<none>"
  /\ bAvail = Sages
  /\ bBatch' = ConsultSages(bOutcome)
  /\ callWho' = "_consult_sages"
  /\ UNCHANGED <<rText, rDecision, bAvail, bOutcome, dResponse, qOut>>

DecideCall ==
  /\ callWho = "<none>"
  /\ bAvail = Sages
  /\ dResponse' = Decide(bOutcome)
  /\ bBatch' = dResponse'.agent_responses
  /\ callWho' = "decide"
  /\ UNCHANGED <<rText, rDecision, bAvail, bOutcome, qOut>>

ValidateQuestionCall ==
  /\ callWho = "<none>"
  /\ qOut' = ValidateQuestion(question)
  /\ callWho' = "validate_question"
  /\ UNCHANGED <<rText, rDecision, bAvail, bOutcome, bBatch, dResponse>>

CallNext ==
  \/ ParseSageResponseCall
  \/ FallbackParseResponseCall
  \/ ConsultThreeSagesCall
  \/ ConsultSagesCall
  \/ DecideCall
  \/ ValidateQuestionCall

\* ====================================================== SolomonJudgeAgent
\* Requests made on one SolomonJudgeAgent, one after the other or at once.
RequestIds == 1..MaxRequests
AllApprove == [s \in Sages |-> APPROVED]
CasparRejects == [s \in Sages |-> IF s = "caspar" THEN REJECTED ELSE APPROVED]
MelchiorFails ==
  [s \in Sages |-> IF s = "caspar" THEN REJECTED ELSE IF s = "melchior" THEN EXCEPTION ELSE APPROVED]
\* a request: its question, what the three tools answer to that question, and
\* the milliseconds decide measures for it
RequestKinds ==
  { [question |-> <<>>,         answers |-> AllApprove,    millis |-> 0],
    [question |-> <<"q">>,      answers |-> AllApprove,    millis |-> 0],
    [question |-> <<"q", " ">>, answers |-> CasparRejects, millis |-> 1],
    [question |-> <<" ", "q">>, answers |-> MelchiorFails, millis |-> 1] }
RUNNING == "<running>"
NotCalled == [s \in Sages |-> "<none>"]

ReqIdle ==
  /\ requests = [r \in RequestIds |-> [question |-> <<>>, answers |-> AllApprove, millis |-> 0]]
  /\ rpc = [r \in RequestIds |-> "new"]
  /\ tresult = [r \in RequestIds |-> NotCalled]
  /\ magi_responses = [r \in RequestIds |-> NoResponse]
  /\ execution_count = 0
  /\ total_execution_time = 0
  /\ tool_execution_count = [s \in Sages |-> 0]

\* the agent's counter after MAGIDecisionRequest(question=...) has raised
AfterRejectedCounted(count) == count + 1
AfterRejected(count) == count

\* MAGIDecisionRequest(question=...) raises in validate_question: decide is never entered.
RequestRejected(r) ==
  /\ rpc[r] = "new"
  /\ ValidateQuestion(requests[r].question) = ValueError
  /\ rpc' = [rpc EXCEPT ![r] = "rejected"]
  /\ execution_count' = AfterRejected(execution_count)
  /\ UNCHANGED <<requests, tresult, magi_responses, total_execution_time, tool_execution_count>>

\* decide up to "await asyncio.gather" of _consult_sages: the question is
\* analysed, the three execute coroutines start, count and sleep.
DecideStart(r) ==
  /\ rpc[r] = "new"
  /\ ValidateQuestion(requests[r].question) # ValueError
  /\ rpc' = [rpc EXCEPT ![r] = "consulting"]
  /\ tresult' = [tresult EXCEPT ![r] = [s \in Sages |-> RUNNING]]
  /\ tool_execution_count' = [s \in Sages |-> tool_execution_count[s] + 1]
  /\ UNCHANGED <<requests, magi_responses, execution_count, total_execution_time>>

\* what execute of tool s returns (or raises) for request r: the answer to r's question
ExecuteResultOfFirst(r, s) == requests[1].answers[s]
ExecuteResult(r, s) == requests[r].answers[s]

\* BaseSageTool.execute returns to the gather of request r.
ToolReturn(r, s) ==
  /\ rpc[r] = "consulting"
  /\ tresult[r][s] = RUNNING
  /\ tresult' = [tresult EXCEPT ![r][s] = ExecuteResult(r, s)]
  /\ UNCHANGED <<requests, rpc, magi_responses, execution_count, total_execution_time,
                 tool_execution_count>>

\* gather has returned: _evaluate_responses, the statistics, the response.
DecideReturn(r) ==
  /\ rpc[r] = "consulting"
  /\ \A s \in Sages : tresult[r][s] # RUNNING
  /\ magi_responses' = [magi_responses EXCEPT ![r] = Decide(tresult[r])]
  /\ execution_count' = execution_count + 1
  /\ total_execution_time' = total_execution_time + requests[r].millis
  /\ rpc' = [rpc EXCEPT ![r] = "returned"]
  /\ UNCHANGED <<requests, tresult, tool_execution_count>>

SolomonNext ==
  \/ \E r \in RequestIds : RequestRejected(r)
  \/ \E r \in RequestIds : DecideStart(r)
  \/ \E r \in RequestIds, s \in Sages : ToolReturn(r, s)
  \/ \E r \in RequestIds : DecideReturn(r)

\* ============================================================== extraction
\* A model text is a sequence of pieces:
\*   log    {'event': 1}          a brace object that holds a log indicator; not JSON
\*   brace  {"x": 1}              a JSON object without the key, no log indicator
\*   head   {"decision": "D"      the opening of a verdict object, with its decision
\*   mid    , "reasoning": "x"    midlog: the same with reasoning "{'event': 1}"
\*   tail   , "confidence": C}    the closing of the verdict object, with its confidence
Piece(k, d, c) == [kind |-> k, decision |-> d, confidence |-> c]
LogNoise == Piece("log", "", -1)
BraceNoise == Piece("brace", "", -1)
HeadPiece(d) == Piece("head", d, -1)
MidPiece == Piece("mid", "", -1)
MidLogPiece == Piece("midlog", "", -1)
TailPiece(c) == Piece("tail", "", c)
Opens(x) == x.kind \in {"log", "brace", "head"}          \* holds '{'
Closes(x) == x.kind \in {"log", "brace", "tail"}         \* holds '}'
HoldsIndicator(x) == x.kind \in {"log", "midlog"}
IsMid(x) == x.kind \in {"mid", "midlog"}
ReasoningOf(x) == IF x.kind = "mid" THEN "x" ELSE "{'event': 1}"

\* the result of an extraction: a verdict object, or None
Verdict(d, r, c) == [decision |-> d, reasoning |-> r, confidence |-> c]
None == Verdict("<None>", "", -1)
NotRun == Verdict("<not run>", "", -1)
NoBlock == <<"<None>">>

\* _is_content_chunk: no log indicator anywhere in the chunk
IsContentChunk(chunk) == \A i \in 1..Len(chunk) : ~HoldsIndicator(chunk[i])

\* json.loads succeeds on the text: one object and nothing else
IsObject(t) ==
  \/ t = <<BraceNoise>>
  \/ /\ Len(t) >= 2
     /\ t[1].kind = "head"
     /\ t[Len(t)].kind = "tail"
     /\ \A i \in 2..(Len(t) - 1) : IsMid(t[i])
FirstWhere(t, P(_)) == CHOOSE i \in 1..Len(t) : P(t[i]) /\ \A j \in 1..(i - 1) : ~P(t[j])
LastWhere(t, P(_)) == CHOOSE i \in 1..Len(t) : P(t[i]) /\ \A j \in (i + 1)..Len(t) : ~P(t[j])
Some(t, P(_)) == \E i \in 1..Len(t) : P(t[i])
IsHead(x) == x.kind = "head"
IsTail(x) == x.kind = "tail"
\* the dict json.loads returns for a verdict object (the last value of a repeated key)
Loaded(t) ==
  Verdict(t[1].decision,
          IF Some(t, IsMid) THEN ReasoningOf(t[LastWhere(t, IsMid)]) ELSE "<missing>",
          t[Len(t)].confidence)

\* the three re.search calls on the buffer
RegexExtract(buf) ==
  Verdict(buf[FirstWhere(buf, IsHead)].decision,
          IF Some(buf, IsMid) THEN ReasoningOf(buf[FirstWhere(buf, IsMid)])
          ELSE "Extracted via regex",
          IF Some(buf, IsTail) THEN buf[FirstWhere(buf, IsTail)].confidence ELSE 50)
DefaultVerdict == Verdict(ABSTAINED, "Failed to parse response", 0)

\* _parse_sage_decision on the buffer
ParseSageDecision(buf) ==
  IF buf = <<>> THEN None
  ELSE IF ~Some(buf, Opens) THEN None
  ELSE IF ~Some(buf, Closes) \/ LastWhere(buf, Closes) < FirstWhere(buf, Opens) THEN None
  ELSE LET json_text == SubSeq(buf, FirstWhere(buf, Opens), LastWhere(buf, Closes))
       IN IF IsObject(json_text) /\ json_text # <<BraceNoise>> THEN Loaded(json_text)
          ELSE IF Some(buf, IsHead) THEN RegexExtract(buf)
          ELSE DefaultVerdict

\* the scan of _extract_json_block from start_index: index runs over the
\* text, depth counts the braces, a candidate is tested whenever a '}' brings depth to 0
RECURSIVE ScanBraces(_, _, _, _)
ScanBraces(full_text, start_index, index, depth) ==
  IF index > Len(full_text) THEN NoBlock
  ELSE LET x == full_text[index]
           after == IF x.kind = "head" THEN depth + 1
                    ELSE IF x.kind = "tail" THEN depth - 1
                    ELSE depth
           closed == /\ Closes(x)
                     /\ after = 0
                     /\ IsObject(SubSeq(full_text, start_index, index))
       IN IF closed THEN SubSeq(full_text, start_index, index)
          ELSE ScanBraces(full_text, start_index, index + 1, after)
\* _extract_json_block(full_text, key_hint) for the key the head pieces hold
ExtractJsonBlock(full_text) ==
  IF full_text = <<>> THEN NoBlock
  ELSE IF ~Some(full_text, IsHead) THEN NoBlock
  ELSE LET start_index == FirstWhere(full_text, IsHead)
       IN ScanBraces(full_text, start_index, start_index, 0)

\* ---- _extract_json_block on a text of tokens: "{", "}", "k" (the key_hint
\* with its value), "x" (other JSON content), "?" (text that is not JSON)
Tokens == {"{", "}", "k", "x", "?"}
\* str.find: the first position of tok, 0 for -1
Find(t, tok) ==
  IF \E i \in 1..Len(t) : t[i] = tok
  THEN CHOOSE i \in 1..Len(t) : t[i] = tok /\ \A j \in 1..(i - 1) : t[j] # tok
  ELSE 0
\* str.rfind(tok, 0, end): the last position of tok before end, 0 for -1
RFind(t, tok, end) ==
  IF \E i \in 1..(end - 1) : t[i] = tok
  THEN CHOOSE i \in 1..(end - 1) : t[i] = tok /\ \A j \in (i + 1)..(end - 1) : t[j] # tok
  ELSE 0
\* where the object that opens at position index closes, 0 if it does not
RECURSIVE MatchingClose(_, _, _)
MatchingClose(t, index, depth) ==
  IF index > Len(t) THEN 0
  ELSE IF t[index] = "{" THEN MatchingClose(t, index + 1, depth + 1)
  ELSE IF t[index] = "}"
       THEN IF depth - 1 = 0 THEN index ELSE MatchingClose(t, index + 1, depth - 1)
  ELSE MatchingClose(t, index + 1, depth)
\* json.loads succeeds on the candidate: one object, only JSON content in it
JsonLoads(t) ==
  /\ Len(t) >= 2
  /\ t[1] = "{"
  /\ MatchingClose(t, 1, 0) = Len(t)
  /\ \A i \in 1..Len(t) : t[i] # "?"
\* the for loop over range(start_index, len(full_text))
RECURSIVE ScanFrom(_, _, _, _)
ScanFrom(full_text, start_index, index, depth) ==
  IF index > Len(full_text) THEN NoBlock
  ELSE IF full_text[index] = "{" THEN ScanFrom(full_text, start_index, index + 1, depth + 1)
  ELSE IF full_text[index] = "}"
       THEN IF depth - 1 = 0 /\ JsonLoads(SubSeq(full_text, start_index, index))
            THEN SubSeq(full_text, start_index, index)
            ELSE ScanFrom(full_text, start_index, index + 1, depth - 1)
  ELSE ScanFrom(full_text, start_index, index + 1, depth)
\* start_index = full_text.rfind('{', 0, key_position)
StartIndex(full_text, key_position) == RFind(full_text, "{", key_position)
\* _extract_json_block(full_text, key_hint)
ExtractJsonBlockAt(full_text, key_hint) ==
  IF full_text = <<>> THEN NoBlock
  ELSE LET key_position == Find(full_text, key_hint)
       IN IF key_position = 0 THEN NoBlock
          ELSE LET start_index == StartIndex(full_text, key_position)
               IN IF start_index = 0 THEN NoBlock
                  ELSE ScanFrom(full_text, start_index, start_index, 0)

\* _solomon_judgment_stream after its stream has ended with the text:
\* judge_chunk carries full_response, then the block is extracted
JudgeExtracts ==
  /\ agent_chunk = NoBlock
  /\ full_response' = text
  /\ agent_chunk' = text
  /\ json_block' = ExtractJsonBlockAt(text, "k")
  /\ UNCHANGED <<text, cuts, fed, buffer, parsed_decision, thinking, stream_chunk>>

\* an item of stream_async: a dict with the key 'event' holding a
\* contentBlockDelta with a text, a dict with 'event' holding something else,
\* a dict with 'message' (the final message, holding the whole text), a dict
\* with other keys (init_event_loop, start, result), or a str
StreamItem(shape, t) == [shape |-> shape, text |-> t]
NoItem == StreamItem("<none>", <<>>)
OtherItems(accumulated) ==
  { StreamItem("contentBlockDelta", <<>>), StreamItem("event", <<>>),
    StreamItem("message", accumulated), StreamItem("init_event_loop", <<>>),
    StreamItem("str", <<>>) }
\* (the text of the final message taken as an increment)
ExtractTextOfMessage(item) ==
  IF item.shape \in {"contentBlockDelta", "str", "message"} THEN [skip |-> FALSE, text |-> item.text]
  ELSE IF item.shape = "event" THEN [skip |-> FALSE, text |-> <<>>]
  ELSE [skip |-> TRUE, text |-> <<>>]
\* chunk_text of the item: the delta's text or the str; None for another
\* 'event'; "continue" for the final message and for internal events
ExtractText(item) ==
  IF item.shape \in {"contentBlockDelta", "str"} THEN [skip |-> FALSE, text |-> item.text]
  ELSE IF item.shape = "event" THEN [skip |-> FALSE, text |-> <<>>]
  ELSE [skip |-> TRUE, text |-> <<>>]

TextIdle ==
  /\ text = <<>>
  /\ cuts = {}
  /\ fed = 0
  /\ buffer = <<>>
  /\ full_response = <<>>
  /\ parsed_decision = NotRun
  /\ json_block = NoBlock
  /\ thinking = <<>>
  /\ agent_chunk = NoBlock
  /\ stream_chunk = NoItem

\* where the chunk that starts after position n ends
ChunkEnd(n) ==
  IF \E c \in cuts : c > n THEN CHOOSE c \in cuts : c > n /\ \A d \in cuts : d > n => c <= d
  ELSE Len(text)

\* One pass of "async for chunk in agent.stream_async(...)" after the
\* timeout check: the text of the item is extracted; an item without text is
\* skipped; a text goes to the buffer if it is content, and to full_response
\* and into an agent_thinking event anyway.
HandleChunk(item) ==
  LET extracted == ExtractText(item)
  IN IF extracted.skip \/ extracted.text = <<>>
     THEN UNCHANGED <<buffer, full_response, thinking>>
     ELSE /\ buffer' = IF IsContentChunk(extracted.text) THEN buffer \o extracted.text ELSE buffer
          /\ full_response' = full_response \o extracted.text
          /\ thinking' = Append(thinking, extracted.text)

\* the stream delivers the next text increment
ChunkArrives ==
  /\ parsed_decision = NotRun
  /\ fed < Len(text)
  /\ LET item == StreamItem("contentBlockDelta", SubSeq(text, fed + 1, ChunkEnd(fed)))
     IN HandleChunk(item) /\ stream_chunk' = item
  /\ fed' = ChunkEnd(fed)
  /\ UNCHANGED <<text, cuts, parsed_decision, json_block, agent_chunk>>

\* the stream delivers an item that is no text increment
OtherItemArrives ==
  /\ parsed_decision = NotRun
  /\ \E item \in OtherItems(full_response) :
       HandleChunk(item) /\ stream_chunk' = item
  /\ UNCHANGED <<text, cuts, fed, parsed_decision, json_block, agent_chunk>>

\* The stream ends: the sage parses its buffer; the integrator extracts the
\* block from its full_response.
StreamEnds ==
  /\ parsed_decision = NotRun
  /\ fed = Len(text)
  /\ parsed_decision' = ParseSageDecision(buffer)
  /\ json_block' = ExtractJsonBlock(full_response)
  /\ agent_chunk' = full_response
  /\ UNCHANGED <<text, cuts, fed, buffer, full_response, thinking, stream_chunk>>

ExtractNext == ChunkArrives \/ OtherItemArrives \/ StreamEnds

\* ===================================================== timeout configuration
\* config/timeout.py, in seconds
TimeoutKeys == {"sage_timeout_seconds", "solomon_timeout_seconds",
                "total_timeout_seconds", "event_queue_timeout_seconds"}
DEFAULT_TIMEOUT_CONFIG ==
  [k \in TimeoutKeys |->
     CASE k = "sage_timeout_seconds" -> 90
       [] k = "solomon_timeout_seconds" -> 60
       [] k = "total_timeout_seconds" -> 180
       [] k = "event_queue_timeout_seconds" -> 120]

\* what os.environ.get(key) gives: None, a string int() refuses, or the
\* decimal string of an integer
Missing == [kind |-> "None", n |-> 0]
NotAnInteger == [kind |-> "text", n |-> 0]
IntegerString(n) == [kind |-> "int", n |-> n]
EnvIntegers == {-5, 0, 60, 200}
EnvValues == {Missing, NotAnInteger} \cup {IntegerString(n) : n \in EnvIntegers}

\* _get_env_int without the check of parsed <= 0
GetEnvIntUnchecked(value, default) ==
  IF value.kind = "None" THEN default
  ELSE IF value.kind = "text" THEN default
  ELSE value.n
\* _get_env_int: the default when the variable is not set, when int() raises
\* ValueError, and when the parsed value is not positive
GetEnvInt(value, default) ==
  IF value.kind = "None" THEN default
  ELSE IF value.kind = "text" THEN default
  ELSE IF value.n <= 0 THEN default
  ELSE value.n

\* _validate_timeout_hierarchy: the keys a warning is printed for
ValidateTimeoutHierarchy(c) ==
  {k \in {"sage_timeout_seconds", "solomon_timeout_seconds", "event_queue_timeout_seconds"} :
     c[k] >= c["total_timeout_seconds"]}

NoConfig == [k \in TimeoutKeys |-> 0]
CfgIdle ==
  /\ environ = [k \in TimeoutKeys |-> Missing]
  /\ config = NoConfig
  /\ warnings = {}
  /\ cfgpc = "idle"

\* load_timeout_config: the four values, then the validation, then return
LoadTimeoutConfig ==
  /\ cfgpc = "idle"
  /\ LET built == [k \in TimeoutKeys |-> GetEnvInt(environ[k], DEFAULT_TIMEOUT_CONFIG[k])]
     IN /\ config' = built
        /\ warnings' = ValidateTimeoutHierarchy(built)
  /\ cfgpc' = "returned"
  /\ UNCHANGED environ

\* ========================================================== decision records
\* solomon/tools.py BaseSageTool.execute; caspar/agent.py CasparAgent.analyze
\* has the same body with _perform_conservative_analysis as the constructor.
AgentResponse(a, d, c, t) == [agent_id |-> a, decision |-> d, confidence |-> c, execution_time |-> t]
NoRecord == AgentResponse("<none>", "<none>", -1, -1)
\* what format_execution_time(start_time) measures, in milliseconds
ExecutionTimes == {0, 500, 1500}
MockConfidences == {75}

RecIdle ==
  /\ tool_response = [s \in Sages |-> NoRecord]
  /\ epc = [s \in Sages |-> "idle"]

\* execute up to the await of _generate_mock_response
ExecuteStarts(s) ==
  /\ epc[s] = "idle"
  /\ epc' = [epc EXCEPT ![s] = "awaiting"]
  /\ UNCHANGED tool_response

\* _create_characteristic_response: AgentResponse(..., execution_time=0)
CreateCharacteristicResponse(s) ==
  /\ epc[s] = "awaiting"
  /\ \E d \in DecisionType, c \in MockConfidences :
       tool_response' = [tool_response EXCEPT ![s] = AgentResponse(s, d, c, 0)]
  /\ epc' = [epc EXCEPT ![s] = "constructed"]

\* "response.execution_time = execution_time", then "return response"
SetExecutionTime(s) ==
  /\ epc[s] = "constructed"
  /\ \E execution_time \in ExecutionTimes :
       tool_response' = [tool_response EXCEPT ![s].execution_time = execution_time]
  /\ epc' = [epc EXCEPT ![s] = "returned"]

\* the except branch: the placeholder is constructed with its execution_time
ExecuteFallback(s) ==
  /\ epc[s] = "awaiting"
  /\ \E execution_time \in ExecutionTimes :
       tool_response' = [tool_response EXCEPT ![s] = AgentResponse(s, REJECTED, 0, execution_time)]
  /\ epc' = [epc EXCEPT ![s] = "returned"]

\* SolomonJudgeAgent.decide reads the record for its trace step and its scoring
ConsumerReads(s) ==
  /\ epc[s] = "returned"
  /\ epc' = [epc EXCEPT ![s] = "read"]
  /\ UNCHANGED tool_response

RecordNext ==
  \E s \in Sages :
    \/ ExecuteStarts(s)
    \/ CreateCharacteristicResponse(s)
    \/ SetExecutionTime(s)
    \/ ExecuteFallback(s)
    \/ ConsumerReads(s)

\* ================================================================ pipeline
NoVoting == [approved |-> -1, rejected |-> -1, abstained |-> -1]
NoScores == [s \in {} |-> 0]                     \* "sage_scores": {}
Scores50 == [s \in Sages |-> 50]                 \* {"caspar": 50, "balthasar": 50, "melchior": 50}
ParsedScores == [s \in Sages |-> 70]             \* whatever score map the model wrote
NoResult == [final_decision |-> "<None>", confidence |-> -1, sage_scores |-> NoScores]

\* the state of a MAGIStrandsAgent after __init__, before the first request
PipeStart ==
  /\ dpc = "init"
  /\ out = <<>>
  /\ merged = [s \in Sages |-> <<>>]
  /\ emitted = [s \in Sages |-> <<>>]
  /\ agent_responses = <<>>
  /\ voting = NoVoting
  /\ sage_data = [s \in Sages |-> NoDecision]
  /\ solomon_result = NoResult
  /\ spc = [s \in Sages |-> "idle"]
  /\ chunks = [s \in Sages |-> 0]
  /\ sdecision = [s \in Sages |-> NoDecision]     \* "decision": None after __init__
  /\ queue = <<>>
  /\ completed_tasks = 0
  /\ muxpc = "idle"
  /\ guardTimer = 0
  /\ clock = 0
  /\ solpc = "idle"
  /\ solchunks = 0

PipeInit ==
  /\ PipeStart
  /\ verdicts = {APPROVED}
  /\ confidences = ParsedConfidences
  /\ budget = MaxChunks
  /\ question = <<"q">>

VoteIdle ==
  /\ vBatch = <<>>
  /\ vTally = [approved |-> 0, rejected |-> 0, abstained |-> 0]
  /\ vFinal = "<none>"
  /\ vWho = "<none>"
  /\ vTotal = -1
  /\ vRate = [num |-> 0, den |-> 1]

\* ------------------------------------------------------------- sage worker
\* _parse_sage_decision: None for an empty buffer or a buffer without a brace,
\* the parsed or regex-extracted object, or the ABSTAINED/0.0 default.
ParseOutcomes(n) ==
  IF n = 0 THEN {NoDecision}
  ELSE {NoDecision, [decision |-> ABSTAINED, confidence |-> 0]}
       \cup [decision : verdicts, confidence : confidences]

\* task_wrapper puts each yielded event on the queue; its finally puts the end marker.
Put(s, events) ==
  /\ queue' = queue \o events
  /\ emitted' = [emitted EXCEPT ![s] = @ \o events]
\* (a wrapper without the finally clause)
PutLastUnmarked(s, events) ==
  /\ queue' = queue \o events
  /\ emitted' = [emitted EXCEPT ![s] = @ \o events]
PutLast(s, events) ==
  /\ queue' = queue \o events \o <<EndMarker(s)>>
  /\ emitted' = [emitted EXCEPT ![s] = @ \o events]

\* Start of task_wrapper and of _consult_sage_stream up to the first await on the stream.
\* The wrappers were created in task order and the loop runs ready tasks first-in first-out.
SageStart(s) ==
  /\ muxpc = "loop"
  /\ spc[s] = "pending"
  /\ \A i, j \in 1..Len(SageOrder) : (i < j /\ SageOrder[j] = s) => spc[SageOrder[i]] # "pending"
  /\ spc' = [spc EXCEPT ![s] = "streaming"]
  /\ chunks' = [chunks EXCEPT ![s] = 0]
  /\ Put(s, <<Ev("agent_start", s, 0, "", -1)>>)
  /\ UNCHANGED <<dpc, out, merged, agent_responses, voting, sage_data, solomon_result, sdecision,
                 completed_tasks, muxpc, guardTimer, clock, solpc, solchunks>>

\* text increments the three sage streams have delivered so far
TotalChunks(c) == c[SageOrder[1]] + c[SageOrder[2]] + c[SageOrder[3]]

SageTimedOut(elapsed) == elapsed > sage_timeout_seconds

\* The except asyncio.TimeoutError branch: agent_timeout, then agent_complete ABSTAINED/0.0.
SageTimeoutEventsThenError(s) ==
  << Ev("agent_timeout", s, chunks[s], "", -1),
     Ev("agent_complete", s, 0, ABSTAINED, 0),
     Ev("error", s, 0, "", -1),
     Ev("agent_complete", s, 0, ABSTAINED, 0) >>
SageTimeoutEvents(s) ==
  << Ev("agent_timeout", s, chunks[s], "", -1),
     Ev("agent_complete", s, 0, ABSTAINED, 0) >>

\* The stream delivers one item: the timeout check, then either a text
\* increment (agent_thinking) or an item without text, which is skipped.
SageItem(s) ==
  /\ muxpc = "loop"
  /\ spc[s] = "streaming"
  /\ IF SageTimedOut(clock)
     THEN /\ spc' = [spc EXCEPT ![s] = "done"]
          /\ PutLast(s, SageTimeoutEvents(s))
          /\ UNCHANGED chunks
     ELSE \/ /\ TotalChunks(chunks) < budget
             /\ chunks' = [chunks EXCEPT ![s] = @ + 1]
             /\ Put(s, <<Ev("agent_thinking", s, chunks[s] + 1, "", -1)>>)
             /\ UNCHANGED spc
          \/ UNCHANGED <<spc, chunks, queue, emitted>>
  /\ UNCHANGED <<dpc, out, merged, agent_responses, voting, sage_data, solomon_result, sdecision,
                 completed_tasks, muxpc, guardTimer, clock, solpc, solchunks>>

\* agent_complete of the normal path: the stored decision, else ABSTAINED/0.5.
SageCompleteEvent(s, stored) ==
  IF stored # NoDecision
  THEN Ev("agent_complete", s, 0, stored.decision, stored.confidence)
  ELSE Ev("agent_complete", s, 0, ABSTAINED, 50)

\* (the decision stored in the state record of the first sage, whoever parsed it)
StoreDecisionInFirst(states, s, stored) == [states EXCEPT ![SageOrder[1]] = stored]
\* self.sage_states[agent_id]["decision"] = decision_data, agent_id being the worker's own
StoreDecision(states, s, stored) == [states EXCEPT ![s] = stored]

\* The stream ends: parse the buffer, agent_chunk, agent_complete.  The text
\* of agent_chunk is kept as its length and what _parse_sage_decision finds in it.
SageEnd(s) ==
  /\ muxpc = "loop"
  /\ spc[s] = "streaming"
  /\ \E decision_data \in ParseOutcomes(chunks[s]) :
       LET stored == IF decision_data # NoDecision THEN decision_data ELSE sdecision[s]
       IN /\ sdecision' = StoreDecision(sdecision, s, stored)
          /\ PutLast(s, << Ev("agent_chunk", s, chunks[s], decision_data.decision,
                               decision_data.confidence),
                            SageCompleteEvent(s, stored) >>)
  /\ spc' = [spc EXCEPT ![s] = "done"]
  /\ UNCHANGED <<dpc, out, merged, agent_responses, voting, sage_data, solomon_result, chunks,
                 completed_tasks, muxpc, guardTimer, clock, solpc, solchunks>>

\* The exception ends the raising sage only: its generator returns, the siblings keep running.
AfterRaiseCancelSiblings(pcs, s) ==
  [t \in Sages |-> IF t = s THEN "done"
                   ELSE IF pcs[t] \in {"pending", "streaming"} THEN "cancelled" ELSE pcs[t]]
AfterRaise(pcs, s) == [pcs EXCEPT ![s] = "done"]

\* The stream raises: the outer except Exception yields error and agent_complete ABSTAINED/0.0.
SageRaise(s) ==
  /\ muxpc = "loop"
  /\ spc[s] = "streaming"
  /\ spc' = AfterRaise(spc, s)
  /\ PutLast(s, << Ev("error", s, 0, "", -1),
                    Ev("agent_complete", s, 0, ABSTAINED, 0) >>)
  /\ UNCHANGED <<dpc, out, merged, agent_responses, voting, sage_data, solomon_result, chunks, sdecision,
                 completed_tasks, muxpc, guardTimer, clock, solpc, solchunks>>

\* ------------------------------------------------------------- multiplexer
LoopConditionOffByOne(completed) == completed < total_tasks - 1
LoopCondition(completed) == completed < total_tasks

\* event_queue.get() returns as soon as the queue holds an item, whatever the workers do.
DeliverableWhenAllEnded(q, pcs) ==
  q # <<>> /\ \A s \in Sages : pcs[s] \notin {"pending", "streaming"}
Deliverable(q, pcs) == q # <<>>

\* the driver's collection test inside "async for event in self._merge_streams(tasks)"
IsCollected(e) == e.type = "sage_complete"
Collected(e) == [agent_id |-> MISSING, decision |-> e.decision, confidence |-> e.confidence]

\* One iteration of the while loop: wait_for(event_queue.get()) returns an item.
\* An event is yielded to the driver, which yields it to its caller at once.
MuxGet ==
  /\ muxpc = "loop"
  /\ LoopCondition(completed_tasks)
  /\ Deliverable(queue, spc)
  /\ LET e == Head(queue)
     IN IF IsMarker(e)
        THEN /\ completed_tasks' = completed_tasks + 1
             /\ UNCHANGED <<merged, agent_responses>>
        ELSE /\ merged' = [merged EXCEPT ![e.agent] = Append(@, e)]
             /\ agent_responses' = IF IsCollected(e) THEN Append(agent_responses, Collected(e))
                                   ELSE agent_responses
             /\ UNCHANGED completed_tasks
  /\ queue' = Tail(queue)
  /\ guardTimer' = 0
  /\ UNCHANGED <<dpc, out, emitted, voting, sage_data, solomon_result, spc, chunks, sdecision,
                 muxpc, clock, solpc, solchunks>>

\* The loop condition fails: every end marker was counted; _merge_streams returns.
MuxReturn ==
  /\ muxpc = "loop"
  /\ ~LoopCondition(completed_tasks)
  /\ muxpc' = "done"
  /\ UNCHANGED <<dpc, out, merged, emitted, agent_responses, voting, sage_data, solomon_result,
                 spc, chunks, sdecision, queue, completed_tasks, guardTimer, clock, solpc, solchunks>>

\* an event_queue.get() without wait_for never gives up
GuardDueNever == FALSE
GuardDue == muxpc = "loop" /\ LoopCondition(completed_tasks) /\ queue = <<>>
            /\ guardTimer >= GuardTimeout

RECURSIVE CancelMarkers(_, _)
CancelMarkers(pcs, i) ==
  IF i > Len(SageOrder) THEN <<>>
  ELSE (IF pcs[SageOrder[i]] \in {"pending", "streaming"} THEN <<EndMarker(SageOrder[i])>> ELSE <<>>)
       \o CancelMarkers(pcs, i + 1)

\* wait_for raises TimeoutError: break, parallel_task.cancel(), await parallel_task.
\* Every unfinished wrapper gets CancelledError at its await, which neither
\* except clause of the sage catches; its finally still puts the end marker.
\* (the CancelledError of "await parallel_task" left uncaught: _merge_streams raises)
GuardFireRaises ==
  /\ GuardDue
  /\ muxpc' = "raised"
  /\ spc' = [s \in Sages |-> IF spc[s] \in {"pending", "streaming"} THEN "cancelled" ELSE spc[s]]
  /\ queue' = queue \o CancelMarkers(spc, 1)
  /\ UNCHANGED <<dpc, out, merged, emitted, agent_responses, voting, sage_data, solomon_result,
                 chunks, sdecision, completed_tasks, guardTimer, clock, solpc, solchunks>>
GuardFire ==
  /\ GuardDue
  /\ muxpc' = "guard"
  /\ spc' = [s \in Sages |-> IF spc[s] \in {"pending", "streaming"} THEN "cancelled" ELSE spc[s]]
  /\ queue' = queue \o CancelMarkers(spc, 1)
  /\ UNCHANGED <<dpc, out, merged, emitted, agent_responses, voting, sage_data, solomon_result,
                 chunks, sdecision, completed_tasks, guardTimer, clock, solpc, solchunks>>

\* ------------------------------------------------------------------ driver
\* yield start
DriverStart ==
  /\ dpc = "init"
  /\ out' = Append(out, Ev("start", "", 0, "", -1))
  /\ dpc' = "sages_start"
  /\ UNCHANGED <<merged, emitted, agent_responses, voting, sage_data, solomon_result, spc, chunks,
                 sdecision, queue, completed_tasks, muxpc, guardTimer, clock, solpc, solchunks>>

\* yield sages_start, build the three generators, enter _merge_streams: the
\* queue is created, the wrappers are scheduled, the loop starts waiting.
DriverSagesStart ==
  /\ dpc = "sages_start"
  /\ out' = Append(out, Ev("sages_start", "", total_tasks, "", -1))
  /\ agent_responses' = <<>>
  /\ queue' = <<>>
  /\ completed_tasks' = 0
  /\ muxpc' = "loop"
  /\ spc' = [s \in Sages |-> "pending"]
  /\ guardTimer' = 0
  /\ clock' = 0
  /\ dpc' = "merging"
  /\ UNCHANGED <<merged, emitted, voting, sage_data, solomon_result, chunks, sdecision, solpc,
                 solchunks>>

\* final_decisions of the driver: the stored decision of each sage, else ABSTAINED.
FinalDecisions(states) ==
  [i \in 1..Len(SageOrder) |->
     IF states[SageOrder[i]] # NoDecision THEN states[SageOrder[i]].decision ELSE ABSTAINED]

CountOf(decisions, d) == Cardinality({i \in DOMAIN decisions : decisions[i] = d})

DriverVoting(states) ==
  LET final_decisions == FinalDecisions(states)
  IN [approved  |-> CountOf(final_decisions, APPROVED),
      rejected  |-> CountOf(final_decisions, REJECTED),
      abstained |-> CountOf(final_decisions, ABSTAINED)]

\* sage_data of _solomon_judgment_stream: the stored decision, else the entry
\* of sage_responses with that agent_id, else ABSTAINED/0.0.
SageData(states, sage_responses) ==
  [s \in Sages |->
     IF states[s] # NoDecision THEN states[s]
     ELSE IF \E j \in 1..Len(sage_responses) : sage_responses[j].agent_id = s
          THEN LET j == CHOOSE k \in 1..Len(sage_responses) :
                          /\ sage_responses[k].agent_id = s
                          /\ \A m \in 1..(k - 1) : sage_responses[m].agent_id # s
               IN [decision |-> sage_responses[j].decision,
                   confidence |-> sage_responses[j].confidence]
          ELSE [decision |-> ABSTAINED, confidence |-> 0]]

\* _create_summary: the sentence of the complete event, kept as which of the
\* four sentences it is and the number it names
CountDecisionOf(responses, d) ==
  Cardinality({i \in 1..Len(responses) : responses[i].decision = d})
CreateSummary(responses) ==
  LET approved == CountDecisionOf(responses, APPROVED)
      rejected == CountDecisionOf(responses, REJECTED)
  IN IF approved = total_tasks THEN [sentence |-> "all approved", n |-> total_tasks]
     ELSE IF rejected = total_tasks THEN [sentence |-> "all rejected", n |-> total_tasks]
     ELSE IF approved > rejected THEN [sentence |-> "n approved", n |-> approved]
     ELSE [sentence |-> "n rejected", n |-> rejected]

MergeReturnedOrRunning(pc) == pc \in {"loop", "done", "guard"}
MergeReturned(pc) == pc \in {"done", "guard"}

\* After _merge_streams has returned: tally, yield judge_start, and run
\* _solomon_judgment_stream up to its first await on the integrator's stream.
DriverJudgeStart ==
  /\ dpc = "merging"
  /\ MergeReturned(muxpc)
  /\ voting' = DriverVoting(sdecision)
  /\ out' = Append(out, Ev("judge_start", "", 0, "", -1))
  /\ sage_data' = SageData(sdecision, agent_responses)
  /\ solpc' = "streaming"
  /\ solchunks' = 0
  /\ clock' = 0
  /\ dpc' = "judging"
  /\ UNCHANGED <<merged, emitted, agent_responses, solomon_result, spc, chunks, sdecision, queue,
                 completed_tasks, muxpc, guardTimer>>

\* -------------------------------------------------------------- integrator
SolomonTimedOut(elapsed) == elapsed > solomon_timeout_seconds

JudgeComplete(result) ==
  Ev("judge_complete", "", 0, result.final_decision, result.confidence)

\* timeout_result and default_result of _solomon_judgment_stream
SolomonDefaultResult == [final_decision |-> REJECTED, confidence |-> 50, sage_scores |-> Scores50]
\* the result of the except json.JSONDecodeError branch
SolomonParseFailResult == [final_decision |-> REJECTED, confidence |-> 50, sage_scores |-> NoScores]
\* the objects json.loads may return for the extracted text
SolomonParsedResults ==
  [final_decision : verdicts \cup {MISSING},
   confidence : confidences, sage_scores : {ParsedScores}]

\* The driver's collection of judge_complete while it drains the generator.
SolomonFinish(events, result) ==
  /\ out' = out \o events \o <<JudgeComplete(result)>>
  /\ solomon_result' = result
  /\ solpc' = "done"

\* The integrator's stream delivers one item.
SolomonItem ==
  /\ dpc = "judging"
  /\ solpc = "streaming"
  /\ IF SolomonTimedOut(clock)
     THEN /\ SolomonFinish(<<Ev("judge_timeout", "", solchunks, "", -1)>>, SolomonDefaultResult)
          /\ UNCHANGED solchunks
     ELSE \/ /\ solchunks < MaxChunks
             /\ solchunks' = solchunks + 1
             /\ out' = Append(out, Ev("judge_thinking", "", solchunks + 1, "", -1))
             /\ UNCHANGED <<solomon_result, solpc>>
          \/ UNCHANGED <<out, solomon_result, solpc, solchunks>>
  /\ UNCHANGED <<dpc, merged, emitted, agent_responses, voting, sage_data, spc, chunks, sdecision,
                 queue, completed_tasks, muxpc, guardTimer, clock>>

\* The integrator's stream ends: judge_chunk, then the text is parsed.  A text
\* shorter than 10 characters raises ValueError and a parsed value that is not
\* an object raises AttributeError, both caught by the outer except Exception.
SolomonEnd ==
  /\ dpc = "judging"
  /\ solpc = "streaming"
  /\ LET judge_chunk == Ev("judge_chunk", "", solchunks, "", -1)
     IN \/ SolomonFinish(<<judge_chunk, Ev("judge_error", "", 0, "", -1)>>, SolomonDefaultResult)
        \/ /\ solchunks > 0
           /\ SolomonFinish(<<judge_chunk>>, SolomonParseFailResult)
        \/ /\ solchunks > 0
           /\ \E result \in SolomonParsedResults : SolomonFinish(<<judge_chunk>>, result)
  /\ UNCHANGED <<dpc, merged, emitted, agent_responses, voting, sage_data, spc, chunks, sdecision,
                 queue, completed_tasks, muxpc, guardTimer, clock, solchunks>>

\* The integrator's stream raises: judge_error, judge_complete with default_result.
SolomonRaise ==
  /\ dpc = "judging"
  /\ solpc = "streaming"
  /\ SolomonFinish(<<Ev("judge_error", "", 0, "", -1)>>, SolomonDefaultResult)
  /\ UNCHANGED <<dpc, merged, emitted, agent_responses, voting, sage_data, spc, chunks, sdecision,
                 queue, completed_tasks, muxpc, guardTimer, clock, solchunks>>

\* solomon_result.get('final_decision', 'REJECTED') if solomon_result else 'REJECTED'
FinalDecisionOf(result) ==
  IF result = NoResult THEN REJECTED
  ELSE IF result.final_decision = MISSING THEN REJECTED
  ELSE result.final_decision

\* The integrator's generator is exhausted: yield complete.
DriverComplete ==
  /\ dpc = "judging"
  /\ solpc = "done"
  /\ out' = Append(out, Ev("complete", "", 0, FinalDecisionOf(solomon_result),
                           IF solomon_result = NoResult THEN 50 ELSE solomon_result.confidence))
  /\ dpc' = "done"
  /\ UNCHANGED <<merged, emitted, agent_responses, voting, sage_data, solomon_result, spc, chunks,
                 sdecision, queue, completed_tasks, muxpc, guardTimer, clock, solpc, solchunks>>

\* -------------------------------------------------------------------- time
\* Some task can run now, so the event loop does not sleep.
Ready ==
  \/ dpc \in {"init", "sages_start"}
  \/ muxpc = "loop" /\ (queue # <<>> \/ ~LoopCondition(completed_tasks)
                        \/ \E s \in Sages : spc[s] = "pending")
  \/ GuardDue
  \/ dpc = "merging" /\ MergeReturned(muxpc)
  \/ dpc = "judging" /\ solpc = "done"

\* 30 seconds pass while the multiplexer or the driver waits.
Tick ==
  /\ dpc \in {"merging", "judging"}
  /\ ~Ready
  /\ clock' = Min(clock + 1, MaxClock)
  /\ guardTimer' = IF muxpc = "loop" THEN Min(guardTimer + 1, GuardTimeout) ELSE guardTimer
  /\ UNCHANGED <<dpc, out, merged, emitted, agent_responses, voting, sage_data, solomon_result,
                 spc, chunks, sdecision, queue, completed_tasks, muxpc, solpc, solchunks>>

\* ----------------------------------------------------------- specifications
Init == PipeInit /\ VoteIdle /\ CallIdle /\ ReqIdle /\ TextIdle /\ CfgIdle /\ RecIdle

Next ==
  \/ DriverStart
  \/ DriverSagesStart
  \/ \E s \in Sages : SageStart(s)
  \/ \E s \in Sages : SageItem(s)
  \/ \E s \in Sages : SageEnd(s)
  \/ \E s \in Sages : SageRaise(s)
  \/ MuxGet
  \/ MuxReturn
  \/ GuardFire
  \/ DriverJudgeStart
  \/ SolomonItem
  \/ SolomonEnd
  \/ SolomonRaise
  \/ DriverComplete
  \/ Tick

\* no step of a run changes its input or the vote aggregators' state
frame == <<verdicts, confidences, budget, question, voteVars, callVars, reqVars, textVars, cfgVars, recVars>>
PipeNext == Next /\ UNCHANGED frame

Spec == Init /\ [][PipeNext]_vars

\* The event loop keeps running ready tasks and its clock advances; nothing
\* obliges a model stream to deliver an item, to end or to raise.
Fairness ==
  /\ WF_vars(DriverStart /\ UNCHANGED frame)
  /\ WF_vars(DriverSagesStart /\ UNCHANGED frame)
  /\ \A s \in Sages : WF_vars(SageStart(s) /\ UNCHANGED frame)
  /\ WF_vars(MuxGet /\ UNCHANGED frame)
  /\ WF_vars(MuxReturn /\ UNCHANGED frame)
  /\ WF_vars(GuardFire /\ UNCHANGED frame)
  /\ WF_vars(DriverJudgeStart /\ UNCHANGED frame)
  /\ WF_vars(DriverComplete /\ UNCHANGED frame)
  /\ WF_vars(Tick /\ UNCHANGED frame)

FairSpec == Spec /\ Fairness

VoteSpecInit == PipeInit /\ VoteInit /\ CallIdle /\ ReqIdle /\ TextIdle /\ CfgIdle /\ RecIdle
VoteSpecNext == VoteNext /\ UNCHANGED <<pipeVars, callVars, reqVars, textVars, cfgVars, recVars>>
VoteSpec == VoteSpecInit /\ [][VoteSpecNext]_vars

\* process_decision_stream is called again on the same MAGIStrandsAgent:
\* sage_states keeps its "decision" entries, everything else is local to the
\* call.  The streams of the next run deliver what is left of the budget.
DriverRestart ==
  /\ dpc = "done"
  /\ dpc' = "init"
  /\ out' = <<>>
  /\ merged' = [s \in Sages |-> <<>>]
  /\ emitted' = [s \in Sages |-> <<>>]
  /\ agent_responses' = <<>>
  /\ voting' = NoVoting
  /\ sage_data' = [s \in Sages |-> NoDecision]
  /\ solomon_result' = NoResult
  /\ spc' = [s \in Sages |-> "idle"]
  /\ chunks' = [s \in Sages |-> 0]
  /\ queue' = <<>>
  /\ completed_tasks' = 0
  /\ muxpc' = "idle"
  /\ guardTimer' = 0
  /\ clock' = 0
  /\ solpc' = "idle"
  /\ solchunks' = 0
  /\ budget' = budget - TotalChunks(chunks)
  /\ UNCHANGED <<sdecision, verdicts, confidences, question, voteVars, callVars, reqVars, textVars, cfgVars, recVars>>

RerunNext == PipeNext \/ DriverRestart
RerunSpec == Init /\ [][RerunNext]_vars

\* runs in which the model streams may write any verdict string
AllVerdicts == {APPROVED, REJECTED, ABSTAINED, MAYBE}
AnyVerdictInit ==
  /\ PipeStart
  /\ verdicts = AllVerdicts
  /\ confidences = ParsedConfidences
  /\ budget = MaxChunks
  /\ question = <<"q">>
  /\ VoteIdle
  /\ CallIdle
  /\ ReqIdle
  /\ TextIdle /\ CfgIdle /\ RecIdle
AnyVerdictSpec == AnyVerdictInit /\ [][PipeNext]_vars

\* the functions of MAGIStrandsSystem, SolomonJudgeAgent and MAGIDecisionRequest,
\* each called once on an input of its own
CallSpecInit ==
  /\ PipeStart /\ verdicts = {APPROVED} /\ confidences = ParsedConfidences /\ budget = MaxChunks
  /\ VoteIdle
  /\ ReqIdle
  /\ TextIdle /\ CfgIdle /\ RecIdle
  /\ rText \in Texts
  /\ bAvail \in SUBSET Sages
  /\ bOutcome \in [Sages -> Outcomes]
  /\ question \in Questions
  /\ \/ bAvail = Sages /\ bOutcome = [s \in Sages |-> APPROVED] /\ question = <<"q">>
     \/ rText = EmptyText /\ question = <<"q">>
     \/ rText = EmptyText /\ bAvail = Sages /\ bOutcome = [s \in Sages |-> APPROVED]
  /\ rDecision = "<none>"
  /\ bBatch = <<>>
  /\ dResponse = NoResponse
  /\ qOut = <<>>
  /\ callWho = "<none>"
CallSpecNext == CallNext /\ UNCHANGED <<pipeVars, voteVars, reqVars, textVars, cfgVars, recVars>>
CallSpec == CallSpecInit /\ [][CallSpecNext]_vars

\* runs of the pipeline on a request whose question is empty, blank or plain
EdgeQuestions == {<<>>, <<" ">>, <<"q">>}
RequestInit ==
  /\ PipeStart
  /\ verdicts = {APPROVED}
  /\ confidences = ParsedConfidences
  /\ budget = MaxChunks
  /\ question \in EdgeQuestions
  /\ VoteIdle
  /\ CallIdle
  /\ ReqIdle
  /\ TextIdle /\ CfgIdle /\ RecIdle
RequestSpec == RequestInit /\ [][PipeNext]_vars

\* runs in which every sage stream can deliver text and ends by itself: the
\* streams deliver up to one increment per sage, no sage stream raises or
\* stalls; the integrator's stream is free to end, fail or raise
UnanimousInit ==
  /\ PipeStart
  /\ verdicts = {APPROVED}
  /\ confidences = ParsedConfidences
  /\ budget = total_tasks * MaxChunks
  /\ question = <<"q">>
  /\ VoteIdle
  /\ CallIdle
  /\ ReqIdle
  /\ TextIdle /\ CfgIdle /\ RecIdle
UnanimousNext ==
  /\ \/ DriverStart
     \/ DriverSagesStart
     \/ \E s \in Sages : SageStart(s)
     \/ \E s \in Sages : chunks[s] < MaxChunks /\ SageItem(s)
     \/ \E s \in Sages : SageEnd(s)
     \/ MuxGet
     \/ MuxReturn
     \/ DriverJudgeStart
     \/ SolomonItem
     \/ SolomonEnd
     \/ SolomonRaise
     \/ DriverComplete
  /\ UNCHANGED frame
UnanimousSpec == UnanimousInit /\ [][UnanimousNext]_vars

\* runs in which the model streams may write any number as confidence:
\* 0.9, 1.5 and, through the parsed object only, -0.5
AnyConfidences == {-50, 90, 150}
AnyConfidenceInit ==
  /\ PipeStart
  /\ verdicts = {APPROVED}
  /\ confidences = AnyConfidences
  /\ budget = MaxChunks
  /\ question = <<"q">>
  /\ VoteIdle
  /\ CallIdle
  /\ ReqIdle
  /\ TextIdle /\ CfgIdle /\ RecIdle
AnyConfidenceSpec == AnyConfidenceInit /\ [][UnanimousNext]_vars

\* requests of every kind made on one SolomonJudgeAgent, in any order and overlap
SolomonInit ==
  /\ PipeInit
  /\ VoteIdle
  /\ CallIdle
  /\ TextIdle /\ CfgIdle /\ RecIdle
  /\ requests \in [RequestIds -> RequestKinds]
  /\ rpc = [r \in RequestIds |-> "new"]
  /\ tresult = [r \in RequestIds |-> NotCalled]
  /\ magi_responses = [r \in RequestIds |-> NoResponse]
  /\ execution_count = 0
  /\ total_execution_time = 0
  /\ tool_execution_count = [s \in Sages |-> 0]
SolomonSpecNext == SolomonNext /\ UNCHANGED <<pipeVars, voteVars, callVars, textVars, cfgVars, recVars>>
SolomonSpec == SolomonInit /\ [][SolomonSpecNext]_vars
\* asyncio.sleep returns and the event loop resumes the gather that is ready
SolomonFairSpec ==
  /\ SolomonSpec
  /\ \A r \in RequestIds, s \in Sages :
       WF_vars(ToolReturn(r, s) /\ UNCHANGED <<pipeVars, voteVars, callVars, textVars, cfgVars, recVars>>)
  /\ \A r \in RequestIds : WF_vars(DecideReturn(r) /\ UNCHANGED <<pipeVars, voteVars, callVars, textVars, cfgVars, recVars>>)

\* model texts: up to MaxNoise brace objects, then one verdict object, cut
\* into chunks at any positions
RECURSIVE NoiseRuns(_)
NoiseRuns(n) ==
  IF n = 0 THEN {<<>>}
  ELSE NoiseRuns(n - 1) \cup
       {Append(t, x) : t \in {u \in NoiseRuns(n - 1) : Len(u) = n - 1}, x \in {LogNoise, BraceNoise}}
VerdictObjects ==
  {<<HeadPiece(d), m, TailPiece(c)>> : d \in VoteDecisions, m \in {MidPiece, MidLogPiece}, c \in {80}}
ModelTexts == {n \o v : n \in NoiseRuns(MaxNoise), v \in VerdictObjects}
ExtractInit ==
  /\ PipeInit
  /\ VoteIdle
  /\ CallIdle
  /\ ReqIdle
  /\ CfgIdle /\ RecIdle
  /\ text \in ModelTexts
  /\ cuts \in SUBSET (1..(Len(text) - 1))
  /\ fed = 0
  /\ buffer = <<>>
  /\ full_response = <<>>
  /\ parsed_decision = NotRun
  /\ json_block = NoBlock
  /\ thinking = <<>>
  /\ agent_chunk = NoBlock
  /\ stream_chunk = NoItem
ExtractSpecNext == ExtractNext /\ UNCHANGED <<pipeVars, voteVars, callVars, reqVars, cfgVars, recVars>>
ExtractSpec == ExtractInit /\ [][ExtractSpecNext]_vars

\* load_timeout_config under every environment of the four keys
TimeoutInit ==
  /\ PipeInit /\ VoteIdle /\ CallIdle /\ ReqIdle /\ TextIdle /\ RecIdle
  /\ environ \in [TimeoutKeys -> EnvValues]
  /\ config = NoConfig
  /\ warnings = {}
  /\ cfgpc = "idle"
TimeoutSpecNext == LoadTimeoutConfig /\ UNCHANGED <<pipeVars, voteVars, callVars, reqVars, textVars, recVars>>
TimeoutSpec == TimeoutInit /\ [][TimeoutSpecNext]_vars

\* _extract_json_block on every text of at most MaxTokens tokens
RECURSIVE TokenTexts(_)
TokenTexts(n) ==
  IF n = 0 THEN {<<>>}
  ELSE TokenTexts(n - 1) \cup
       {Append(t, x) : t \in {u \in TokenTexts(n - 1) : Len(u) = n - 1}, x \in Tokens}
KeyInit ==
  /\ PipeInit /\ VoteIdle /\ CallIdle /\ ReqIdle /\ CfgIdle /\ RecIdle
  /\ text \in TokenTexts(MaxTokens)
  /\ cuts = {}
  /\ fed = 0
  /\ buffer = <<>>
  /\ full_response = <<>>
  /\ parsed_decision = NotRun
  /\ json_block = NoBlock
  /\ thinking = <<>>
  /\ agent_chunk = NoBlock
  /\ stream_chunk = NoItem
KeySpecNext == JudgeExtracts /\ UNCHANGED <<pipeVars, voteVars, callVars, reqVars, cfgVars, recVars>>
KeySpec == KeyInit /\ [][KeySpecNext]_vars

\* the records of the three sage tools, from execute to their consumer
RecordInit == PipeInit /\ VoteIdle /\ CallIdle /\ ReqIdle /\ TextIdle /\ CfgIdle /\ RecIdle
RecordSpecNext == RecordNext /\ UNCHANGED <<pipeVars, voteVars, callVars, reqVars, textVars, cfgVars>>
RecordSpec == RecordInit /\ [][RecordSpecNext]_vars

\* ================================================================== claims
Last(seq) == seq[Len(seq)]
Types(seq) == [i \in 1..Len(seq) |-> seq[i].type]
HasType(seq, t) == \E i \in 1..Len(seq) : seq[i].type = t
CountType(seq, t) == Cardinality({i \in 1..Len(seq) : seq[i].type = t})
RECURSIVE QueueEventsOf(_, _)
QueueEventsOf(q, s) ==
  IF q = <<>> THEN <<>>
  ELSE (IF Head(q).agent = s /\ ~(Head(q).type = "None") THEN <<Head(q)>> ELSE <<>>)
       \o QueueEventsOf(Tail(q), s)
Tie(t) == t.approved = t.rejected

\* C1: whenever a vote aggregator has returned for a tally with
\* approved == rejected, the decision it returned is REJECTED.
CE_C1 == (vWho \notin {"<none>", "VotingResult"} /\ Tie(vTally)) => vFinal = REJECTED

\* C2: whenever a vote aggregator has evaluated a batch, the decision it
\* returned is APPROVED exactly when the batch holds more APPROVED than
\* REJECTED records, and REJECTED otherwise.
CE_C2 ==
  vWho \in {"_evaluate_responses", "strands._create_fallback_judgment",
            "executor._create_fallback_judgment"}
  => /\ vFinal \in {APPROVED, REJECTED}
     /\ vFinal = APPROVED <=> CountDecision(vBatch, APPROVED) > CountDecision(vBatch, REJECTED)

\* C3: under the event loop's fairness, and with no assumption on the model
\* streams, a multiplexer that has entered its loop eventually returns.
C3_MergeTerminates == (muxpc = "loop") ~> (muxpc \in {"done", "guard"})
\* the guard has fired while a sage was stalled, and the multiplexer returned after cancelling it
W_C3 == muxpc = "guard" /\ \E s \in Sages : spc[s] = "cancelled" /\ Len(emitted[s]) >= 1

\* C4: while the guard has not fired, the events of each sage that were
\* yielded, followed by its events still on the queue, are exactly the events
\* the sage emitted, in emission order; after a return without guard timeout
\* every emitted event has been yielded exactly once.
C4_PerWorkerOrder ==
  muxpc \in {"loop", "done"} =>
    \A s \in Sages :
      /\ merged[s] \o QueueEventsOf(queue, s) = emitted[s]
      /\ muxpc = "done" => merged[s] = emitted[s]
\* all three sages delivered completely, each with at least start, full text and completion
W_C4 ==
  /\ muxpc = "done"
  /\ \A s \in Sages : Len(merged[s]) >= 3 /\ merged[s] = emitted[s]
  /\ \E s \in Sages : chunks[s] >= 1 /\ HasType(merged[s], "agent_thinking")

\* C5: with fairness of the multiplexer's own step only, whenever events that
\* sages have put on the queue are not yet yielded, a moment follows at which
\* all of them are; no progress of any worker is needed for it.
MuxFairSpec == Spec /\ WF_vars(MuxGet /\ UNCHANGED frame)
Undelivered == \E s \in Sages : Len(merged[s]) < Len(emitted[s])
C5_NoHeadOfLineBlocking == Undelivered ~> ~Undelivered
\* a fast sage is delivered through agent_complete while a slow one has emitted only its first chunk
W_C5 ==
  \E f, sl \in Sages :
    /\ f # sl
    /\ spc[f] = "done"
    /\ merged[f] = emitted[f] /\ Last(merged[f]).type = "agent_complete"
    /\ spc[sl] = "streaming" /\ chunks[sl] = 1

\* C6: a merge that ended without guard timeout has counted one end marker
\* per launched task, and every task had ended by itself.
C6_CompletenessSignalled ==
  muxpc = "done" =>
    /\ completed_tasks = total_tasks
    /\ queue = <<>>
    /\ \A s \in Sages : spc[s] = "done"
\* a merge that ended by end markers although the queue had been silent for a while
W_C6 == muxpc = "done" /\ clock >= 2 /\ dpc = "merging"

\* C7: judge_start and the integrator's stream exist only after the
\* multiplexer has returned, with every sage finished or cancelled, and from
\* then on no sage emits an event and no sage event is yielded.
SagesOver ==
  dpc \in {"judging", "done"} =>
    /\ muxpc \in {"done", "guard"}
    /\ \A s \in Sages : spc[s] \in {"done", "cancelled"}
SagesStaySilent ==
  dpc \in {"judging", "done"} => (merged' = merged /\ emitted' = emitted /\ spc' = spc)
C7_IntegratorAfterSages == []SagesOver /\ [][SagesStaySilent]_vars
\* the integrator streams after a merge in which a sage was cancelled by the guard
W_C7 == dpc = "judging" /\ solchunks >= 1 /\ \E s \in Sages : spc[s] = "cancelled"

Errored(s) == HasType(emitted[s], "error")
\* C8: a sage whose stream raised ends with error and agent_complete
\* ABSTAINED/0.0; the step that raises changes no other worker, the
\* multiplexer or the driver; a sibling that finished has all its events
\* delivered when the merge returns; the merge of three self-terminated sages
\* returns by end markers; and, the other streams ending, the run goes on to
\* judge_start .. complete.
ErrorConverted ==
  \A s \in Sages : Errored(s) =>
          /\ spc[s] = "done"
          /\ Len(emitted[s]) >= 3
          /\ emitted[s][Len(emitted[s]) - 1].type = "error"
          /\ Last(emitted[s]) = Ev("agent_complete", s, 0, ABSTAINED, 0)
          /\ \A t \in Sages \ {s} :
               (spc[t] = "done" /\ muxpc \in {"done", "guard"}) =>
                  /\ merged[t] = emitted[t]
                  /\ Last(merged[t]).type = "agent_complete"
          /\ ((\A t \in Sages : spc[t] = "done") /\ muxpc # "loop") => muxpc = "done"
          /\ dpc = "done" =>
               /\ HasType(out, "judge_start") /\ HasType(out, "judge_complete")
               /\ Last(out).type = "complete"
RaiseTouchesNobodyElse ==
  \A s \in Sages : (~Errored(s) /\ Errored(s)') =>
     /\ \A t \in Sages \ {s} : spc'[t] = spc[t] /\ emitted'[t] = emitted[t]
     /\ muxpc' = muxpc /\ dpc' = dpc /\ out' = out
\* the streams of the sages and of the integrator end sooner or later
StreamsEndSpec ==
  /\ FairSpec
  /\ \A s \in Sages : WF_vars(SageEnd(s) /\ UNCHANGED frame)
  /\ WF_vars(SolomonEnd /\ UNCHANGED frame)
AnyErrored == \E s \in Sages : Errored(s)
HasTimeoutRecord(s) ==
  /\ Len(emitted[s]) >= 2
  /\ emitted[s][Len(emitted[s]) - 1].type = "agent_timeout"
  /\ Last(emitted[s]) = Ev("agent_complete", s, 0, ABSTAINED, 0)
\* C9: no worker whose stream has not terminated is past its timeout without
\* having emitted its timeout event and its terminal record.
CE_C9 ==
  /\ \A s \in Sages :
       (dpc = "merging" /\ spc[s] \in {"streaming", "cancelled"} /\ clock > sage_timeout_seconds)
         => HasTimeoutRecord(s)
  /\ (solpc = "streaming" /\ clock > solomon_timeout_seconds) => HasType(out, "judge_timeout")

\* the event types of a sage, by position of the worker
SageLifecycle(seq, pc) ==
  LET n == Len(seq)
      terminal == {"agent_chunk", "agent_timeout", "error"}
  IN /\ pc \in {"idle", "pending"} <=> n = 0
     /\ n > 0 => seq[1].type = "agent_start"
     /\ CountType(seq, "agent_start") <= 1
     /\ CountType(seq, "agent_complete") <= 1
     /\ ~(HasType(seq, "agent_timeout") /\ HasType(seq, "error"))
     /\ pc \in {"streaming", "cancelled"} =>
          \A i \in 2..n : seq[i].type = "agent_thinking" /\ seq[i].n = i - 1
     /\ pc = "done" =>
          /\ n >= 3
          /\ \A i \in 2..(n - 2) : seq[i].type = "agent_thinking" /\ seq[i].n = i - 1
          /\ seq[n - 1].type \in terminal
          /\ seq[n].type = "agent_complete"
     /\ pc = "cancelled" => muxpc = "guard"
\* the integrator's events: everything the driver yielded after judge_start
JudgeEvents ==
  IF HasType(out, "judge_start")
  THEN LET k == CHOOSE i \in 1..Len(out) : out[i].type = "judge_start"
       IN SubSeq(out, k, IF Last(out).type = "complete" THEN Len(out) - 1 ELSE Len(out))
  ELSE <<>>
JudgeLifecycle(seq, pc) ==
  LET n == Len(seq)
  IN /\ pc = "idle" <=> n = 0
     /\ n > 0 => seq[1].type = "judge_start"
     /\ CountType(seq, "judge_start") <= 1
     /\ CountType(seq, "judge_complete") <= 1
     /\ ~(HasType(seq, "judge_timeout") /\ HasType(seq, "judge_error"))
     /\ pc = "streaming" =>
          \A i \in 2..n : seq[i].type = "judge_thinking" /\ seq[i].n = i - 1
     /\ pc = "done" =>
          /\ seq[n].type = "judge_complete"
          /\ \E m \in 1..(n - 1) :
               /\ \A i \in 2..m : seq[i].type = "judge_thinking" /\ seq[i].n = i - 1
               /\ Types(SubSeq(seq, m + 1, n - 1)) \in
                    { <<"judge_chunk">>, <<"judge_chunk", "judge_error">>,
                      <<"judge_timeout">>, <<"judge_error">> }
\* C10: each worker emits its start event first, then thinking chunks, then
\* one terminal path that ends in exactly one completion event, and nothing
\* after it; never a timeout and an error event together; a sage without
\* completion event has been cancelled by the guard.
C10_WorkerLifecycle ==
  /\ \A s \in Sages : SageLifecycle(emitted[s], spc[s])
  /\ JudgeLifecycle(JudgeEvents, solpc)
\* the three terminal paths in one merge: one sage completed, one timed out, one errored
W_C10 ==
  /\ \E a, b, c \in Sages :
       /\ HasType(emitted[a], "agent_chunk") /\ spc[a] = "done"
       /\ HasType(emitted[b], "agent_timeout") /\ spc[b] = "done"
       /\ HasType(emitted[c], "error") /\ spc[c] = "done"
  /\ solpc = "done"

\* ---------------------------------------------------------------------- C11
\* the text of an agent_chunk event yields no verdict: the parser returned
\* None or its ABSTAINED/0.0 default
NoVerdictChunk(e) ==
  /\ e.type = "agent_chunk"
  /\ \/ e.decision = NoDecision.decision
     \/ e.decision = ABSTAINED /\ e.confidence = 0
NoVerdictText(t) == t.decision = MISSING /\ ~t.keyword
SageNoSilentApproval ==
  \A s \in Sages :
    (spc[s] = "done" /\ NoVerdictChunk(emitted[s][Len(emitted[s]) - 1]))
      => Last(emitted[s]).decision \in {REJECTED, ABSTAINED}
IntegratorNoSilentApproval ==
  (dpc = "done" /\ (solomon_result.final_decision = MISSING \/ solomon_result = SolomonParseFailResult))
    => Last(out).decision \in {REJECTED, ABSTAINED}
ParserNoSilentApproval ==
  (callWho \in {"_parse_sage_response", "_fallback_parse_response"} /\ NoVerdictText(rText))
    => rDecision \in {REJECTED, ABSTAINED}
\* C11: a text without verdict never yields an APPROVED record: not in the
\* agent_complete event of a sage, not in the final decision taken from the
\* integrator, not in the AgentResponse of the MAGIStrandsSystem parsers.
CE_C11 == SageNoSilentApproval /\ IntegratorNoSilentApproval /\ ParserNoSilentApproval

\* ---------------------------------------------------------------------- C12
\* the integrator ended without a parsed verdict: timeout, error or parse failure
IntegratorFailed ==
  \/ HasType(out, "judge_timeout")
  \/ HasType(out, "judge_error")
  \/ solomon_result = SolomonParseFailResult
MajorityOf(tally) == IF tally.approved > tally.rejected THEN APPROVED ELSE REJECTED
\* C12: when the integrator has failed, the final decision of the complete
\* event is the majority of the run's tally.
CE_C12 ==
  (dpc = "done" /\ IntegratorFailed) => Last(out).decision = MajorityOf(voting)

\* ---------------------------------------------------------------------- C13
Framed ==
  /\ out # <<>> => out[1].type = "start"
  /\ CountType(out, "start") <= 1
  /\ CountType(out, "complete") <= 1
  /\ \A i \in 1..Len(out) : out[i].type = "complete" => i = Len(out)
  /\ dpc = "done" <=> (out # <<>> /\ Last(out).type = "complete")
NothingAfterClosing == dpc = "done" => (out' = out /\ merged' = merged)
\* C13: the events of a run begin with start; complete occurs at most once
\* and only as the last event, after which nothing is emitted; and every run
\* that has begun ends with complete, the model streams being free to end,
\* raise, run past their timeout or stall.
CE_C13 ==
  /\ []Framed
  /\ [][NothingAfterClosing]_vars
  /\ (dpc = "init") ~> (dpc = "done")

\* ---------------------------------------------------------------------- C14
\* C14: the final_decision of a complete event is APPROVED or REJECTED.
CE_C14 == dpc = "done" => Last(out).decision \in {APPROVED, REJECTED}

\* ---------------------------------------------------------------------- C15
\* C15: the tally reported in the complete event counts all three sages.
CE_C15 == dpc = "done" => voting.approved + voting.rejected + voting.abstained = total_tasks

\* ---------------------------------------------------------------------- C16
RecordsOf(batch, s) == {i \in 1..Len(batch) : batch[i].agent_id = s}
\* the sage produced no record of its own: no agent, or its task failed
FailedSage(s) == s \notin bAvail \/ bOutcome[s] = EXCEPTION
BatchPadded(batch) ==
  \A s \in Sages :
    /\ Cardinality(RecordsOf(batch, s)) = 1
    /\ FailedSage(s) =>
         \A i \in RecordsOf(batch, s) :
           batch[i].synthesized /\ batch[i].decision \in {ABSTAINED, REJECTED}
\* in the streamed run the sage errored, timed out or was cancelled
GaveNoRecord(s) ==
  spc[s] = "cancelled" \/ HasType(emitted[s], "error") \/ HasType(emitted[s], "agent_timeout")
PromptPadded ==
  dpc \in {"judging", "done"} =>
    /\ DOMAIN sage_data = Sages
    /\ voting.approved + voting.rejected + voting.abstained = total_tasks
    /\ \A s \in Sages : GaveNoRecord(s) => sage_data[s].decision \in {ABSTAINED, REJECTED}
\* C16: the batch that is tallied and put into the integrator prompt holds
\* exactly one record per sage, and the record of a sage that produced none
\* is a synthesized ABSTAINED or REJECTED one.
CE_C16 ==
  /\ callWho \in {"_consult_three_sages", "_consult_sages", "decide"} => BatchPadded(bBatch)
  /\ PromptPadded

\* ---------------------------------------------------------------------- C17
CompleteIndexes(seq) == {i \in 1..Len(seq) : seq[i].type = "agent_complete"}
\* the verdict the sage's agent_complete of this run carries; a sage that was
\* cancelled before its agent_complete has none and stands as ABSTAINED
RunVerdict(s) ==
  IF CompleteIndexes(merged[s]) = {} THEN ABSTAINED
  ELSE LET i == CHOOSE k \in CompleteIndexes(merged[s]) :
                  \A j \in CompleteIndexes(merged[s]) : j <= k
       IN merged[s][i].decision
RunCount(d) == Cardinality({s \in Sages : RunVerdict(s) = d})
\* C17: the tally and the integrator input of a run are those of the
\* agent_complete events of the same run, whatever earlier runs on the same
\* agent have returned.
CE_C17 ==
  dpc \in {"judging", "done"} =>
    /\ voting = [approved |-> RunCount(APPROVED), rejected |-> RunCount(REJECTED),
                 abstained |-> RunCount(ABSTAINED)]
    /\ \A s \in Sages : sage_data[s].decision = RunVerdict(s)

\* ---------------------------------------------------------------------- C18
Blank(q) == \A i \in 1..Len(q) : q[i] = " "
Trimmed(q) == q # <<>> /\ Head(q) # " " /\ q[Len(q)] # " "
NoWorkerLaunched ==
  \A s \in Sages : spc[s] # "streaming" /\ emitted[s] = <<>> /\ merged[s] = <<>> /\ chunks[s] = 0
\* C18: a request whose question is empty or blank launches no sage: no
\* agent_start is emitted and no model stream is opened; the validator
\* refuses such a question and returns any other one without its
\* surrounding blanks.
CE_C18 ==
  /\ Blank(question) => NoWorkerLaunched
  /\ callWho = "validate_question" =>
       IF Blank(question) THEN qOut = ValueError
       ELSE /\ Trimmed(qOut)
            /\ \E i, j \in 0..Len(question) :
                 /\ i + Len(qOut) + j = Len(question)
                 /\ qOut = SubSeq(question, i + 1, i + Len(qOut))
                 /\ Blank(SubSeq(question, 1, i))
                 /\ Blank(SubSeq(question, i + Len(qOut) + 1, Len(question)))

\* ---------------------------------------------------------------------- C19
\* decide was called with one sage raising and the other two returning APPROVED
OneRaisedTwoApproved ==
  /\ callWho = "decide"
  /\ \E s \in Sages :
       /\ bOutcome[s] = EXCEPTION
       /\ \A t \in Sages \ {s} : bOutcome[t] = APPROVED
\* C19: when one sage raises and the other two return APPROVED, the output
\* holds three records, the failed sage's being synthesized, has has_errors
\* set and degraded_mode clear, and decides by the majority of the three.
CE_C19 ==
  OneRaisedTwoApproved =>
    /\ Len(dResponse.agent_responses) = total_tasks
    /\ \A s \in Sages :
         \E i \in 1..Len(dResponse.agent_responses) :
           /\ dResponse.agent_responses[i].agent_id = s
           /\ dResponse.agent_responses[i].synthesized <=> bOutcome[s] = EXCEPTION
    /\ dResponse.has_errors = TRUE
    /\ dResponse.degraded_mode = FALSE
    /\ dResponse.final_decision = MajorityOf(dResponse.voting_result)

\* ---------------------------------------------------------------------- C20
ReturnedApproved(s) ==
  \E i \in 1..Len(merged[s]) :
    merged[s][i].type = "agent_complete" /\ merged[s][i].decision = APPROVED
Unanimous == [approved |-> total_tasks, rejected |-> 0, abstained |-> 0]
\* C20: when all three sages have returned APPROVED, the final output
\* reports the tally 3/0/0 and the final decision APPROVED.
CE_C20 ==
  /\ (dpc = "done" /\ \A s \in Sages : ReturnedApproved(s)) =>
       /\ voting = Unanimous
       /\ Last(out).decision = APPROVED
  /\ (callWho = "decide" /\ \A s \in Sages : bOutcome[s] = APPROVED) =>
       /\ dResponse.voting_result = Unanimous
       /\ dResponse.final_decision = APPROVED

\* ---------------------------------------------------------------------- C21
CarriesConfidence(e) == e.type \in {"agent_complete", "judge_complete", "complete"}
InUnitRange(c) == 0 <= c /\ c <= 100
\* C21: the confidence of every agent_complete, judge_complete and complete
\* event, and of every AgentResponse of a batch, lies between 0.0 and 1.0.
CE_C21 ==
  /\ \A s \in Sages : \A i \in 1..Len(emitted[s]) :
       CarriesConfidence(emitted[s][i]) => InUnitRange(emitted[s][i].confidence)
  /\ \A i \in 1..Len(out) : CarriesConfidence(out[i]) => InUnitRange(out[i].confidence)
  /\ \A i \in 1..Len(bBatch) : InUnitRange(bBatch[i].confidence)

\* ---------------------------------------------------------------------- C22
\* the guard has fired: some sage was cancelled
GuardFired == \E s \in Sages : spc[s] = "cancelled"
\* the tally and the integrator input hold the verdicts of the sages that
\* finished and ABSTAINED for the cancelled ones
GuardBatchUsed ==
  (GuardFired /\ dpc \in {"judging", "done"}) =>
    /\ \A s \in Sages : spc[s] = "cancelled" => sage_data[s].decision = ABSTAINED
    /\ \A s \in Sages : spc[s] = "done" => sage_data[s].decision = RunVerdict(s)
    /\ voting.approved = RunCount(APPROVED)
    /\ voting.rejected = RunCount(REJECTED)
    /\ voting.abstained = RunCount(ABSTAINED)
    /\ HasType(out, "judge_start")
    /\ dpc = "done" => Last(out).type = "complete" /\ Last(out).decision \in DecisionType
\* the guard's step ends the multiplexer and leaves the driver where it is;
\* the driver's next step after it starts the integrator
GuardThenJudge ==
  /\ (~GuardFired /\ GuardFired') => (muxpc' = "guard" /\ dpc' = dpc /\ out' = out)
  /\ (GuardFired /\ dpc = "merging" /\ dpc' # dpc) => (dpc' = "judging" /\ solpc' = "streaming")
OneRecordPerSage(batch) == \A s \in Sages : Cardinality(RecordsOf(batch, s)) = 1
WellFormedResponse(resp) ==
  /\ Len(resp.agent_responses) = total_tasks
  /\ OneRecordPerSage(resp.agent_responses)
  /\ Len(resp.scores) = total_tasks
  /\ \A i \in 1..Len(resp.scores) : resp.scores[i].score \in 0..100
  /\ resp.voting_result.approved + resp.voting_result.rejected + resp.voting_result.abstained
       = total_tasks
  /\ InUnitRange(resp.confidence)
\* the records of the response are the tools' answers to the request's own question
OwnAnswers(r) ==
  \A i \in 1..Len(magi_responses[r].agent_responses) :
    LET rec == magi_responses[r].agent_responses[i]
        answer == requests[r].answers[rec.agent_id]
    IN IF answer = EXCEPTION THEN rec.synthesized /\ rec.decision = REJECTED
       ELSE ~rec.synthesized /\ rec.decision = answer
\* C23: every response decide returns, also to requests that overlap on one
\* agent, holds one record per sage, three scores in 0..100, a tally of
\* three votes and a confidence in [0, 1], and is built from the answers to
\* its own request.
C23_DecideWellFormed ==
  \A r \in RequestIds :
    rpc[r] = "returned" => WellFormedResponse(magi_responses[r]) /\ OwnAnswers(r)
\* two overlapping requests with different answers: one has returned, the other is waiting for a tool
W_C23 ==
  \E r, q \in RequestIds :
    /\ rpc[r] = "returned" /\ rpc[q] = "consulting"
    /\ requests[r].answers # requests[q].answers
    /\ \E s, t \in Sages : tresult[q][s] = RUNNING /\ tresult[q][t] # RUNNING

\* ---------------------------------------------------------------------- C24
Returned == {r \in RequestIds : rpc[r] = "returned"}
\* a step that rejects a request changes neither the agent's statistics nor its tools
RejectionLeavesAgent ==
  (\E r \in RequestIds : rpc[r] = "new" /\ rpc'[r] = "rejected") =>
    UNCHANGED <<execution_count, total_execution_time, tool_execution_count, tresult, magi_responses>>
\* the statistics count the requests that returned, and nothing else
StatisticsOfReturned ==
  /\ execution_count = Cardinality(Returned)
  /\ \A s \in Sages :
       tool_execution_count[s] = Cardinality({r \in RequestIds : rpc[r] \in {"consulting", "returned"}})
  /\ \A r \in Returned :
       /\ Len(magi_responses[r].agent_responses) = total_tasks
       /\ magi_responses[r].final_decision \in DecisionType
\* C24: a request rejected for its empty question leaves the agent's
\* statistics and tools as they were, and every valid request on the same
\* agent, before or after a rejected one, completes with a full response.
C24_ErrorRecovery ==
  /\ [][RejectionLeavesAgent]_vars
  /\ []StatisticsOfReturned
  /\ \A r \in RequestIds : (rpc[r] = "consulting") ~> (rpc[r] = "returned")
\* one request was rejected and another one, on the same agent, has returned its response
W_C24 ==
  \E r, q \in RequestIds :
    /\ rpc[r] = "rejected"
    /\ rpc[q] = "returned"
    /\ magi_responses[q] # NoResponse
    /\ execution_count = 1

\* ---------------------------------------------------------------------- C25
SameRate(f, n, d) == f.den > 0 /\ f.num * d = n * f.den
\* C25: total_votes is the sum of the three counts; approval_rate is
\* approved / (approved + rejected), or 0.0 when nobody voted for or
\* against; the number of abstentions does not change approval_rate.
C25_VotingResultArithmetic ==
  vWho = "VotingResult" =>
    /\ vTotal = vTally.approved + vTally.rejected + vTally.abstained
    /\ IF vTally.approved + vTally.rejected > 0
       THEN SameRate(vRate, vTally.approved, vTally.approved + vTally.rejected)
       ELSE vRate = ZeroRate
    /\ \A n \in 0..(MaxVotes + 1) : ApprovalRate([vTally EXCEPT !.abstained = n]) = vRate
\* the properties of a tally with votes for, against and abstentions were read
W_C25 ==
  /\ vWho = "VotingResult"
  /\ vTally.abstained > 0
  /\ vTally.approved > 0
  /\ vTally.rejected > 0

\* ---------------------------------------------------------------------- C26
IsNoise(x) == x.kind \in {"log", "brace"}
\* the verdict object the text ends with
ValidObject == SubSeq(text, Len(text) - 2, Len(text))
\* noise before a verdict object whose own reasoning is plain
NoisyText == Some(text, IsNoise) /\ ValidObject[2] = MidPiece
\* C26: when the text holds noise objects before the verdict object, the
\* verdict and the confidence recovered from it are those of the verdict
\* object, however many noise objects there are and wherever the chunks end.
CE_C26 ==
  (parsed_decision # NotRun /\ NoisyText) =>
    /\ parsed_decision.decision = ValidObject[1].decision
    /\ parsed_decision.confidence = ValidObject[3].confidence
    /\ json_block = ValidObject

\* ---------------------------------------------------------------------- C27
\* the text is the serialization of one verdict object and nothing else
WellFormedText == Len(text) = 3 /\ IsObject(text)
\* C27: extracting from the serialization of a verdict object returns its
\* decision, reasoning and confidence, in one chunk or cut into several.
CE_C27 ==
  (parsed_decision # NotRun /\ WellFormedText) =>
    /\ parsed_decision = Verdict(text[1].decision, ReasoningOf(text[2]), text[3].confidence)
    /\ json_block = text

\* ---------------------------------------------------------------------- C28
\* an environment value the claim calls missing, non-integer, zero or negative
Replaced(value) == value.kind \in {"None", "text"} \/ value.n <= 0
\* C28: load_timeout_config returns, and the configuration it returns has
\* four positive integers: the default of the key where the environment value
\* is missing, not an integer, zero or negative, the environment's integer
\* otherwise; a sage, integrator or queue timeout that is not smaller than
\* the total timeout is warned about and stays in the configuration as it is.
C28_TimeoutConfigNeverFails ==
  /\ cfgpc \in {"idle", "returned"}
  /\ cfgpc = "returned" =>
       /\ \A k \in TimeoutKeys :
            /\ config[k] \in Nat \ {0}
            /\ config[k] = IF Replaced(environ[k]) THEN DEFAULT_TIMEOUT_CONFIG[k] ELSE environ[k].n
       /\ \A k \in TimeoutKeys \ {"total_timeout_seconds"} :
            k \in warnings <=> config[k] >= config["total_timeout_seconds"]
\* a configuration was returned with a replaced value and with a timeout, taken
\* from the environment, that is warned about
W_C28 ==
  /\ cfgpc = "returned"
  /\ environ["solomon_timeout_seconds"].kind = "int"
  /\ environ["solomon_timeout_seconds"].n < 0
  /\ "sage_timeout_seconds" \in warnings
  /\ config["sage_timeout_seconds"] = 200

\* ---------------------------------------------------------------------- C29
Constructed(s) == tool_response[s] # NoRecord
\* C29: once an AgentResponse has been constructed, no step changes any of
\* its fields.
CE_C29 == [][\A s \in Sages : Constructed(s) => tool_response'[s] = tool_response[s]]_vars

\* ---------------------------------------------------------------------- C30
\* a step of the worker task of sage s
WorkerStep(s) == SageStart(s) \/ SageItem(s) \/ SageEnd(s) \/ SageRaise(s)
\* the text collected by sage s and its state record
OwnState(s) == <<chunks[s], sdecision[s]>>
\* what changes of sage s is changed by a step of its own worker
WrittenByOwner == \A s \in Sages : OwnState(s)' # OwnState(s) => WorkerStep(s)
\* a worker's step leaves the other sages' state and the driver's objects alone
WorkerWritesOwn ==
  \A s \in Sages :
    WorkerStep(s) =>
      /\ \A t \in Sages \ {s} : OwnState(t)' = OwnState(t)
      /\ UNCHANGED <<dpc, out, merged, agent_responses, voting, sage_data, solomon_result,
                     completed_tasks, solpc, solchunks>>
Appended == SubSeq(queue', Len(queue) + 1, Len(queue'))
\* the queue changes by a worker appending its own events (the end markers of
\* cancelled workers included), or by the multiplexer taking the first item
AppendOrDrain ==
  queue' # queue =>
    \/ MuxGet /\ queue' = Tail(queue)
    \/ /\ Len(queue') > Len(queue)
       /\ SubSeq(queue', 1, Len(queue)) = queue
       /\ \/ \E s \in Sages : WorkerStep(s) /\ \A i \in 1..Len(Appended) : Appended[i].agent = s
          \/ GuardFire /\ \A i \in 1..Len(Appended) : IsMarker(Appended[i])
\* C30: the text and the state record of a sage are written by that sage's
\* worker only, a worker writes nothing else but the event queue, and the
\* queue is appended to by workers and drained by the multiplexer.
C30_SingleWriter == [][WrittenByOwner /\ WorkerWritesOwn /\ AppendOrDrain]_vars
\* a sage has stored its decision, another worker has ended and its end marker
\* was drained, and items of workers wait in the queue
W_C30 ==
  \E s, t \in Sages :
    /\ s # t
    /\ chunks[s] > 0
    /\ sdecision[s] # NoDecision
    /\ spc[t] = "done"
    /\ completed_tasks > 0
    /\ queue # <<>>

\* ---------------------------------------------------------------------- C31
ErrorIndexes(seq) == {i \in 1..Len(seq) : seq[i].type = "error"}
\* the model stream of sage s has raised in this run
Raised(s) == ErrorIndexes(emitted[s]) # {}
\* the record the worker emits right after its error event
ErrorRecord(s) ==
  LET i == CHOOSE k \in ErrorIndexes(emitted[s]) : TRUE
  IN IF i < Len(emitted[s]) THEN emitted[s][i + 1] ELSE Ev("<none>", s, 0, "", -1)
RaisedWith(d) == {s \in Sages : Raised(s) /\ ErrorRecord(s).decision = d}
\* C31: a sage whose stream raised emits error, then agent_complete with
\* ABSTAINED or REJECTED and confidence 0.0, and the tally and the integrator
\* input of the run hold that record for this sage.
CE_C31 ==
  /\ \A s \in Sages :
       Raised(s) =>
         /\ ErrorRecord(s).type = "agent_complete"
         /\ ErrorRecord(s).decision \in {ABSTAINED, REJECTED}
         /\ ErrorRecord(s).confidence = 0
  /\ dpc \in {"judging", "done"} =>
       /\ \A s \in Sages :
            Raised(s) => sage_data[s] = [decision |-> ErrorRecord(s).decision, confidence |-> 0]
       /\ Cardinality(RaisedWith(ABSTAINED)) <= voting.abstained
       /\ Cardinality(RaisedWith(REJECTED)) <= voting.rejected

\* ---------------------------------------------------------------------- C32
RECURSIVE Concat(_)
Concat(texts) == IF texts = <<>> THEN <<>> ELSE Head(texts) \o Concat(Tail(texts))
\* C32: at the end of the stream the text that was parsed is the
\* concatenation of the texts of the agent_thinking events, and is the text
\* of the agent_chunk event.
CE_C32 ==
  parsed_decision # NotRun =>
    /\ buffer = Concat(thinking)
    /\ buffer = agent_chunk

\* ---------------------------------------------------------------------- C33
\* the sage completion events the multiplexer has yielded in this run
Completions ==
  UNION { {<<s, i>> : i \in {k \in 1..Len(merged[s]) : merged[s][k].type = "agent_complete"}} :
          s \in Sages }
\* the sentence that agrees with a tally
SummaryOfTally(v) ==
  IF v.approved = total_tasks THEN [sentence |-> "all approved", n |-> total_tasks]
  ELSE IF v.rejected = total_tasks THEN [sentence |-> "all rejected", n |-> total_tasks]
  ELSE IF v.approved > v.rejected THEN [sentence |-> "n approved", n |-> v.approved]
  ELSE [sentence |-> "n rejected", n |-> v.rejected]
\* C33: the list the driver hands to the integrator and to the summary
\* builder holds the data of every sage completion event the multiplexer
\* yielded, and the summary agrees with the tally of the same complete event.
CE_C33 ==
  dpc \in {"judging", "done"} =>
    /\ Len(agent_responses) = Cardinality(Completions)
    /\ \A c \in Completions :
         \E j \in 1..Len(agent_responses) :
           agent_responses[j].decision = merged[c[1]][c[2]].decision
    /\ CreateSummary(agent_responses) = SummaryOfTally(voting)

\* ---------------------------------------------------------------------- C34
\* an item that is no text delta: the final message, an internal event, or
\* an item whose text is empty
NonText(item) == item.shape \in {"message", "init_event_loop", "event"} \/ item.text = <<>>
RECURSIVE UnmatchedOpen(_, _, _)
UnmatchedOpen(t, i, closes) ==
  IF i = 0 THEN 0
  ELSE IF t[i] = "}" THEN UnmatchedOpen(t, i - 1, closes + 1)
  ELSE IF t[i] = "{"
       THEN IF closes = 0 THEN i ELSE UnmatchedOpen(t, i - 1, closes - 1)
  ELSE UnmatchedOpen(t, i - 1, closes)
\* the brace-balanced object that encloses position i
EnclosingObject(t, i) ==
  LET a == UnmatchedOpen(t, i - 1, 0)
  IN IF a = 0 \/ MatchingClose(t, a, 0) = 0 THEN NoBlock
     ELSE SubSeq(t, a, MatchingClose(t, a, 0))
\* C35: a block returned by _extract_json_block is the brace-balanced object
\* that encloses the first occurrence of the key, never a nested or sibling
\* object that starts before the key.
CE_C35 ==
  (agent_chunk # NoBlock /\ json_block # NoBlock) =>
    json_block = EnclosingObject(text, Find(text, "k"))

\* ---------------------------------------------------------------------- C36
StillRunning(s) == spc[s] \in {"pending", "streaming"}
\* C36: under the default configuration the guard of the multiplexer fires
\* only when some still-running sage is past its own timeout.
CE_C36 == [][GuardFire => \E s \in Sages : StillRunning(s) /\ SageTimedOut(clock)]_vars

\* ---------------------------------------------------------------------- C37
MarkerIndexes(seq, s) == {i \in 1..Len(seq) : IsMarker(seq[i]) /\ seq[i].agent = s}
OwnIndexes(seq, s) == {i \in 1..Len(seq) : seq[i].agent = s}
\* the wrapped task of sage s ends in this step: normally, by an exception or by cancellation
Exits(s) == StillRunning(s) /\ ~StillRunning(s)'
\* the step in which a task ends puts one end marker of the task, after the
\* task's own events of that step, and no other step puts an end marker of it
OneMarkerOnExit ==
  \A s \in Sages :
    IF Exits(s)
    THEN /\ Cardinality(MarkerIndexes(Appended, s)) = 1
         /\ \A i \in OwnIndexes(Appended, s), j \in MarkerIndexes(Appended, s) : i <= j
    ELSE MarkerIndexes(Appended, s) = {}
Ended(s) == spc[s] \in {"done", "cancelled"}
\* the counter is the number of ended tasks whose end marker was dequeued
CounterIsDequeuedMarkers ==
  /\ completed_tasks <= total_tasks
  /\ \A s \in Sages : Cardinality(MarkerIndexes(queue, s)) <= 1
  /\ \A s \in Sages : MarkerIndexes(queue, s) # {} => Ended(s)
  /\ completed_tasks = Cardinality({s \in Sages : Ended(s) /\ MarkerIndexes(queue, s) = {}})
\* C37: every wrapped task puts exactly one end marker, after its own events,
\* when it ends normally, by an exception or by cancellation; the completed
\* counter never exceeds the number of tasks and counts the ended tasks whose
\* marker was dequeued.
C37_EndMarkers == [][OneMarkerOnExit]_vars /\ []CounterIsDequeuedMarkers
\* one task ended by an exception and its marker was counted, another was
\* cancelled and its marker is in the queue
W_C37 ==
  \E s, t \in Sages :
    /\ Raised(s)
    /\ MarkerIndexes(queue, s) = {}
    /\ completed_tasks >= 1
    /\ spc[t] = "cancelled"
    /\ MarkerIndexes(queue, t) # {}

====
